---- MODULE Spec2Model ----
(***************************************************************************)
(* Resource tables of the FreeRTOS OSAL port: the task, queue, binary      *)
(* semaphore, counting semaphore and mutex tables of osapi.c               *)
(* (src/unnamed/part_003) and the timer table of ostimer.c.                *)
(*                                                                         *)
(* The six tables are independent of each other (each has its own array    *)
(* and its own table mutex), so a behaviour exercises one of them: `kind'  *)
(* is chosen in Init and the callers in Procs then issue Create, Delete,   *)
(* GetIdByName and handle operations of that kind concurrently.            *)
(*                                                                         *)
(* A section of code that runs with the table mutex held is one step.      *)
(* Code that runs without the mutex (the validity checks of Delete and of  *)
(* the handle operations, the kernel constructor and destructor calls,     *)
(* all of OS_TimerCreate after the reservation) is a step of its own, so   *)
(* other callers can run between two such steps.                           *)
(***************************************************************************)
EXTENDS Integers, FiniteSets, Sequences, TLC

(* ---- bounds ---- *)
MaxObj  == 2     \* the configured maximum of every kind, scaled down
MaxHost == 3     \* kernel objects the FreeRTOS heap can hold at a time
MaxCalls == 4    \* API calls issued in one behaviour
MaxUsecs == 2500 \* the longest time converted to ticks, in microseconds
MaxMsecs == 3    \* the longest timeout given to a wait, in milliseconds

Procs == {"t1", "t2"}          \* concurrent callers of the API
Names == {"A", "B"}            \* object names passed by the callers
Kinds == {"task", "queue", "binsem", "countsem", "mutex", "timer"}

(* ---- configuration (osconfig.h), scaled to the bound ---- *)
OS_MAX_TASKS            == MaxObj
OS_MAX_QUEUES           == MaxObj
OS_MAX_BIN_SEMAPHORES   == MaxObj
OS_MAX_COUNT_SEMAPHORES == MaxObj
OS_MAX_MUTEXES          == MaxObj
OS_MAX_TIMERS           == MaxObj
OS_MAX_NUM_OPEN_FILES   == MaxObj

OS_TASK_TABLE_SIZE    == OS_MAX_TASKS * 2
OS_QUEUE_TABLE_SIZE   == OS_MAX_QUEUES * 2
OS_BIN_SEM_TABLE_SIZE == OS_MAX_BIN_SEMAPHORES * 2
OS_MUTEX_TABLE_SIZE   == OS_MAX_MUTEXES * 2

UNINITIALIZED == 0
\* (TaskHandle_t)0xFFFF, the host id written into a tombstoned slot
DeletedHostId == 65535

OS_SUCCESS            == "OS_SUCCESS"
OS_ERROR              == "OS_ERROR"
OS_SEM_FAILURE        == "OS_SEM_FAILURE"
OS_ERR_INVALID_ID     == "OS_ERR_INVALID_ID"
OS_ERR_NAME_TAKEN     == "OS_ERR_NAME_TAKEN"
OS_ERR_NO_FREE_IDS    == "OS_ERR_NO_FREE_IDS"
OS_ERR_NAME_NOT_FOUND == "OS_ERR_NAME_NOT_FOUND"
OS_TIMER_ERR_UNAVAILABLE == "OS_TIMER_ERR_UNAVAILABLE"

VARIABLES
  kind,   \* the table this behaviour exercises
  tbl,    \* OS_<kind>_table: slot index -> record
  count,  \* task_count / queue_count / bin_sem_count / mut_sem_count (uint32)
  kobj,   \* host handles of the kernel objects that exist
  pc,     \* per caller: where it is inside its current API call
  loc,    \* per caller: locals of the current call
  last,   \* the call that returned most recently and what it returned
  calls,  \* number of API calls issued so far
  gone,   \* history: names whose object was deleted and not created again
  holder, \* table mutex -> the task that holds it, "none" if it is free
  lpc,    \* per task: the locked sections left in its current call
  hk,     \* handle checks: the table the calls under test index
  htab,   \* handle checks: slot index -> the slot is in use
  hcall,  \* handle checks: the last call, its handle and what it returned
  hacc,   \* handle checks: the table indices the last call read or wrote
  fpc,    \* files: per task, its position in OS_open / OS_creat and its slot
  variant, \* select: which osselect.c the build has, "split" or "combined"
  strm,   \* select: stream id -> the stream's entry in the I/O table
  sel,    \* select: the last wait, its arguments, the host's answer, its results
  link,   \* stream reads: stream id -> the state of its connection on the host
  rcall,  \* stream reads: the last read, its arguments and what it returned
  tickRate, \* tick conversion: configTICK_RATE_HZ of the build
  tcall,  \* tick conversion: the last conversion, its argument and results
  name_counter, \* arguments: the file-static name_counter (uint8)
  acall,  \* arguments: the last call and the code it returned
  intEnabled, \* unsupported calls: interrupts are enabled on the host
  fpuMask, \* unsupported calls: the FPU exception mask of the host
  scall,  \* unsupported calls: the last call, its argument and its code
  binit,  \* binary semaphore: the initial value it was created with
  bval,   \* binary semaphore: tokens in the kernel semaphore, 0 or 1
  bpc,    \* binary semaphore: per task, idle, waiting in a Take or made ready
  bcall,  \* binary semaphore: the last step, its task and what it returned
  served, \* binary semaphore: history, a blocked Take has just been released
  tmr,    \* timer expiry: the slot of the timer and the state of its host timer
  tev,    \* timer expiry: the last call or expiry and what came of it
  psem,   \* lock paths: the table mutex whose functions this behaviour calls
  mtx,    \* lock paths: table mutex -> the task that holds it, "none" if free
  run,    \* lock paths: per task, the function it is in, its path, its position
  done,   \* lock paths: the call that has just returned
  ntab,   \* names: slot -> free flag, display name, original name
  npc     \* names: per task, its position in a call and the locals of the call

\* the state of the resource tables
tableVars == <<kind, tbl, count, kobj, pc, loc, last, calls, gone>>

\* the state of the table mutexes
lockVars == <<holder, lpc>>

\* the state of the handle checks
handleVars == <<hk, htab, hcall, hacc, fpc>>

\* the state of the select engine
selVars == <<variant, strm, sel>>

\* the state of the stream reads (with strm)
readVars == <<link, rcall>>

\* the state of the tick conversions
tickVars == <<tickRate, tcall>>

\* the state of the argument validation (with the tables)
argVars == <<name_counter, acall>>

\* the state the unsupported entry points are called in
stubVars == <<intEnabled, fpuMask, scall>>

\* the state of the binary semaphore
semVars == <<binit, bval, bpc, bcall, served>>

\* the state of the timer whose expiries are followed
timerVars == <<tmr, tev>>

\* the state of the table mutexes as the functions' paths take and give them
pathVars == <<psem, mtx, run, done>>

\* the state of the display names
nameVars == <<ntab, npc>>

vars == <<tableVars, lockVars, handleVars, selVars, readVars, tickVars, argVars,
          stubVars, semVars, timerVars, pathVars, nameVars>>

(* ---- per-kind shape of the tables ---- *)

\* kinds whose record has a `deleted' field and whose Delete tombstones
HasDeleted(k) == k \in {"task", "queue", "binsem", "mutex"}

\* kinds that keep an active-object counter next to the table
HasCount(k) == k \in {"task", "queue", "binsem", "mutex"}

TableSize(k) ==
  CASE k = "task"     -> OS_TASK_TABLE_SIZE
    [] k = "queue"    -> OS_QUEUE_TABLE_SIZE
    [] k = "binsem"   -> OS_BIN_SEM_TABLE_SIZE
    [] k = "mutex"    -> OS_MUTEX_TABLE_SIZE
    [] k = "countsem" -> OS_MAX_COUNT_SEMAPHORES
    [] k = "timer"    -> OS_MAX_TIMERS

Capacity(k) ==
  CASE k = "task"     -> OS_MAX_TASKS
    [] k = "queue"    -> OS_MAX_QUEUES
    [] k = "binsem"   -> OS_MAX_BIN_SEMAPHORES
    [] k = "mutex"    -> OS_MAX_MUTEXES
    [] k = "countsem" -> OS_MAX_COUNT_SEMAPHORES
    [] k = "timer"    -> OS_MAX_TIMERS

\* the code returned when the kernel constructor fails
ConstructFailCode(k) ==
  CASE k \in {"task", "queue"}               -> OS_ERROR
    [] k \in {"binsem", "countsem", "mutex"} -> OS_SEM_FAILURE
    [] k = "timer"                           -> OS_TIMER_ERR_UNAVAILABLE

Slots == 0 .. (TableSize(kind) - 1)

\* a slot as OS_API_Init / OS_TimerAPIInit leaves it
InitSlot == [free |-> TRUE, deleted |-> FALSE, original_name |-> "",
             id |-> UNINITIALIZED]

(* ---- uint32 counters ---- *)
\* The counters are uint32.  A value v is kept as v when v < 2^31 and as
\* v - 2^32 otherwise, so 0 - 1 is -1 (0xFFFFFFFF); comparisons are unsigned.
U32GreaterEq(a, b) == IF a < 0 THEN (b >= 0 \/ a >= b) ELSE (b >= 0 /\ a >= b)

(* ---- scans ---- *)

\* for (possible = 0; possible < SIZE; possible++) if (free == TRUE) break;
FirstFree(T) ==
  IF \E i \in DOMAIN T : T[i].free
  THEN CHOOSE i \in DOMAIN T : T[i].free /\ \A j \in DOMAIN T : T[j].free => i <= j
  ELSE Cardinality(DOMAIN T)

\* the name check with its loop started at slot 1 instead of slot 0
NameTaken_FromOne(T, n) ==
  \E i \in DOMAIN T \ {0} : ~T[i].free /\ ~T[i].deleted /\ T[i].original_name = n

\* "Check to see if the name is already taken" loop of the Create functions
NameTaken(T, n) ==
  \E i \in DOMAIN T : ~T[i].free /\ ~T[i].deleted /\ T[i].original_name = n

\* the value of i after "for (i = 0; i < SIZE; i++)" of the name check: the
\* index at which the loop was left, SIZE if it ran to its end
NameLoopEnd(T, n) ==
  LET hit == {j \in DOMAIN T : ~T[j].free /\ ~T[j].deleted /\ T[j].original_name = n}
  IN IF hit = {} THEN Cardinality(DOMAIN T) ELSE CHOOSE j \in hit : \A k \in hit : j <= k

\* the scan of OS_<kind>GetIdByName: index of the first match, -1 if none
FindByName(T, n) ==
  LET hit == {i \in DOMAIN T : ~T[i].free /\ ~T[i].deleted /\ T[i].original_name = n}
  IN IF hit = {} THEN -1 ELSE CHOOSE i \in hit : \A j \in hit : i <= j

\* validity check of the handle operations (Give, Take, TimedWait, GetInfo,
\* QueuePut, QueueGet, TaskSetPriority, TimerSet)
UseRejects(T, h) == h >= Cardinality(DOMAIN T) \/ T[h].free

\* validity check of the Delete functions
DeleteRejects(T, h) ==
  h >= Cardinality(DOMAIN T) \/ T[h].free \/ T[h].deleted

\* OS_TaskGetId: the slot of the running task, -1 (OS_ERR_NAME_NOT_FOUND) if none
OS_TaskGetId(T, x) ==
  LET hit == {i \in DOMAIN T : ~T[i].free /\ T[i].id = x}
  IN IF hit = {} THEN -1 ELSE CHOOSE i \in hit : \A j \in hit : i <= j

(* ---- kernel heap ---- *)
HostIds == 1 .. MaxHost
HeapFull == HostIds \subseteq kobj
\* the allocator hands out the lowest free block, so host ids are reused
NewHostId == CHOOSE x \in HostIds \ kobj : \A y \in HostIds \ kobj : x <= y

(* ---- bookkeeping of calls ---- *)
\* i: the loop variable of the name check as the loop left it, -1 outside Create
NoLoc == [name |-> "", slot |-> -1, snap |-> InitSlot, i |-> -1]

NoLast == [op |-> "none", code |-> "none", h |-> -1]

\* caller t returns from its call
Return(t, r) ==
  /\ pc'   = [pc EXCEPT ![t] = "idle"]
  /\ loc'  = [loc EXCEPT ![t] = NoLoc]
  /\ last' = r
  /\ gone' = IF r.op = "create" /\ r.code = "OS_SUCCESS" THEN gone \ {loc[t].name}
             ELSE IF r.op = "delete" /\ r.code = "OS_SUCCESS"
                  THEN gone \cup ({loc[t].name} \ {""})
                  ELSE gone

CreateStages == {"reserved", "named", "constructed", "rollback"}

\* a slot that holds an object: not free, not deleted and not in the hands of
\* a Create call that has not returned yet
LiveSlot(i) ==
  /\ ~tbl[i].free /\ ~tbl[i].deleted
  /\ ~\E t \in Procs : pc[t] \in CreateStages /\ loc[t].slot = i

\* the name is the original_name of a live object
NameInUse(n) == \E i \in Slots : LiveSlot(i) /\ tbl[i].original_name = n

\* the name is the argument of a Create call that has not returned yet
NameBeingCreated(n) == \E t \in Procs : pc[t] \in CreateStages /\ loc[t].name = n

\* the handle denotes a slot that is neither free nor deleted
HandleValid(h) == h \in Slots /\ ~tbl[h].free /\ ~tbl[h].deleted

\* no call is in progress and every table mutex is free, as OS_API_Init
\* leaves them (xSemaphoreCreateMutex, part_003:641-671)
LocksIdle ==
  /\ holder = [l \in Kinds \cup {"fd"} |-> "none"]
  /\ lpc = [t \in Procs |-> [at |-> "idle", k |-> "none", left |-> 0, creator |-> "none"]]

NoCall == [op |-> "none", h |-> 0, code |-> "none"]

NoOpen == [at |-> "idle", op |-> "none", fd |-> -1]

\* no handle check has been made and no task is inside OS_open or OS_creat
HandlesIdle ==
  /\ hk = "fd"
  /\ htab = [i \in 0 .. (OS_MAX_NUM_OPEN_FILES - 1) |-> FALSE]
  /\ hcall = NoCall
  /\ hacc = {}
  /\ fpc = [t \in Procs |-> NoOpen]

Streams == 0 .. (OS_MAX_NUM_OPEN_FILES - 1)

\* OS_FreeRTOS_StreamAPI_Impl_Init: fd = NULL, connected = disconnected = false
ClosedStream == [fd |-> FALSE, connected |-> FALSE, disconnected |-> FALSE]

NoWait ==
  [op |-> "none", id |-> 0, flagsIn |-> {}, flagsOut |-> {},
   rdNull |-> FALSE, wrNull |-> FALSE, rdIn |-> {}, wrIn |-> {},
   rdOut |-> {}, wrOut |-> {}, code |-> "none", st |-> "none",
   rdSt |-> "none", wrSt |-> "none", confR |-> {}, confW |-> {}]

\* no stream is open and no wait has been made
SelectIdle ==
  /\ variant = "combined"
  /\ strm = [i \in Streams |-> ClosedStream]
  /\ sel = NoWait

NoRead == [op |-> "none", id |-> 0, nbytes |-> 0, timeout |-> 0, code |-> "none"]

\* no stream is connected and no read has been made
ReadsIdle ==
  /\ link = [i \in Streams |-> "none"]
  /\ rcall = NoRead

NoTicks == [op |-> "none", arg |-> 0, forever |-> FALSE, ticks |-> 0, usecs |-> 0]

\* no conversion has been made
TicksIdle ==
  /\ tickRate = 1000
  /\ tcall = NoTicks

NoArgCall == [op |-> "none", code |-> "none"]

\* no call with arguments has been made
ArgsIdle ==
  /\ name_counter = 0
  /\ acall = NoArgCall

NoStubCall == [fn |-> "none", arg |-> 0, code |-> "none"]

\* no unsupported entry point has been called
StubsIdle ==
  /\ intEnabled = TRUE
  /\ fpuMask = 0
  /\ scall = NoStubCall

\* binit of a semaphore that has not been created
NotCreated == -1

\* the tasks that use the binary semaphore
SemTasks == {"A", "B", "C"}

\* no binary semaphore exists and no task is inside a call
BinSemIdle ==
  /\ binit = NotCreated
  /\ bval = 0
  /\ bpc = [t \in SemTasks |-> "idle"]
  /\ bcall = [op |-> "none", t |-> "none", code |-> "none"]
  /\ served = FALSE

\* the slot as OS_TimerAPIInit leaves it; host: the host timer exists,
\* armed: it is running, period: its period in ticks, due: the time in
\* microseconds the application asked for when it was armed
FreeTimer ==
  [free |-> TRUE, start_time |-> 0, interval_time |-> 0, host |-> FALSE,
   armed |-> FALSE, period |-> 0, due |-> 0]

NoTimerEvent == [op |-> "none", code |-> "none", waited |-> 0, due |-> 0]

\* no timer exists
TimersIdle ==
  /\ tmr = FreeTimer
  /\ tev = NoTimerEvent

\* the table mutexes of the port
TableSems ==
  {"OS_task_table_sem", "OS_queue_table_sem", "OS_bin_sem_table_sem",
   "OS_count_sem_table_sem", "OS_mut_sem_table_sem", "OS_timer_table_sem",
   "OS_FDTableSem", "OS_DirTableSem", "OS_VolumeTableSem", "OS_module_table_sem"}

NoRun == [fn |-> "none", path |-> <<>>, at |-> 0]

NoDone == [t |-> "none", fn |-> "none", line |-> 0, took |-> FALSE]

\* every table mutex is free and no task is inside a function
PathsIdle ==
  /\ psem = "OS_task_table_sem"
  /\ mtx = [l \in TableSems |-> "none"]
  /\ run = [t \in Procs |-> NoRun]
  /\ done = NoDone

OS_MAX_MODULES == MaxObj

\* a slot as OS_ModuleTableInit / OS_API_Init leaves it: free, name ""
FreeName == [free |-> TRUE, name |-> <<>>, original_name |-> <<>>]

NoNameCall == [at |-> "idle", name |-> <<>>, slot |-> -1, counter |-> 0]

\* no named object exists and no task is inside a call
NamesIdle ==
  /\ ntab = [i \in 0 .. (OS_MAX_MODULES - 1) |-> FreeName]
  /\ npc = [t \in Procs |-> NoNameCall]

Init ==
  /\ kind \in Kinds
  /\ tbl = [i \in 0 .. (TableSize(kind) - 1) |-> InitSlot]
  /\ count = 0
  /\ kobj = {}
  /\ pc = [t \in Procs |-> "idle"]
  /\ loc = [t \in Procs |-> NoLoc]
  /\ last = NoLast
  /\ calls = 0
  /\ gone = {}
  /\ LocksIdle
  /\ HandlesIdle
  /\ SelectIdle
  /\ ReadsIdle /\ TicksIdle /\ ArgsIdle /\ StubsIdle /\ BinSemIdle /\ TimersIdle /\ PathsIdle /\ NamesIdle


\* op returned code; h is the id stored through the caller's pointer
Ret(op, code, h) == [op |-> op, code |-> code, h |-> h]

\* a caller may start a new API call
MayCall(t) == pc[t] = "idle" /\ calls < MaxCalls

(***************************************************************************)
(* Create, first locked section (all six kinds): capacity check, scan for  *)
(* a free slot, name check, reservation.  OS_TaskCreate 849-883,           *)
(* OS_QueueCreate 1257-1287, OS_BinSemCreate 1622-1651, OS_CountSemCreate  *)
(* 1981-2004, OS_MutSemCreate 2320-2350, OS_TimerCreate 187-224.  The      *)
(* counting semaphore and timer tables have no counter.                    *)
(***************************************************************************)
Create_Reserve(t, n) ==
  /\ MayCall(t)
  /\ calls' = calls + 1
  /\ LET possible == FirstFree(tbl)
     IN IF HasCount(kind) /\ U32GreaterEq(count, Capacity(kind))
        THEN /\ Return(t, Ret("create", OS_ERR_NO_FREE_IDS, -1))
             /\ UNCHANGED <<kind, tbl, count, kobj>>
        ELSE IF possible >= TableSize(kind)
        THEN /\ Return(t, Ret("create", OS_ERR_NO_FREE_IDS, -1))
             /\ UNCHANGED <<kind, tbl, count, kobj>>
        ELSE IF NameTaken(tbl, n)
        THEN /\ Return(t, Ret("create", OS_ERR_NAME_TAKEN, -1))
             /\ UNCHANGED <<kind, tbl, count, kobj>>
        ELSE /\ tbl' = [tbl EXCEPT ![possible].free = FALSE]
             /\ pc'  = [pc EXCEPT ![t] = "reserved"]
             /\ loc' = [loc EXCEPT ![t] = [name |-> n, slot |-> possible,
                                           snap |-> tbl[possible],
                                           i |-> NameLoopEnd(tbl, n)]]
             /\ UNCHANGED <<kind, count, kobj, last, gone>>
  /\ UNCHANGED <<lockVars, handleVars, selVars, readVars, tickVars, argVars, stubVars, semVars, timerVars, pathVars, nameVars>>

(***************************************************************************)
(* Create, kernel constructor, called without the table mutex (the five    *)
(* kinds of osapi.c).  xQueueCreate, xSemaphoreCreate* store their result  *)
(* (NULL on failure) straight into the slot; xTaskCreate writes the slot's *)
(* id only when it succeeds.                                               *)
(***************************************************************************)
Create_Construct(t) ==
  /\ kind # "timer"
  /\ pc[t] = "reserved"
  /\ UNCHANGED calls
  /\ UNCHANGED gone
  /\ LET s == loc[t].slot
     IN \/ /\ ~HeapFull
           /\ tbl'  = [tbl EXCEPT ![s].id = NewHostId]
           /\ kobj' = kobj \cup {NewHostId}
           /\ pc'   = [pc EXCEPT ![t] = "constructed"]
        \/ /\ tbl'  = IF kind = "task" THEN tbl
                      ELSE [tbl EXCEPT ![s].id = UNINITIALIZED]
           /\ kobj' = kobj
           /\ pc'   = [pc EXCEPT ![t] = "rollback"]
  /\ UNCHANGED <<kind, count, loc, last>>
  /\ UNCHANGED <<lockVars, handleVars, selVars, readVars, tickVars, argVars, stubVars, semVars, timerVars, pathVars, nameVars>>

(***************************************************************************)
(* Create, constructor failed: re-lock and free the slot.                  *)
(* OS_TaskCreate 888-893, OS_QueueCreate 1297-1303, OS_BinSemCreate        *)
(* 1662-1668, OS_CountSemCreate 2010-2016, OS_MutSemCreate 2356-2361.      *)
(***************************************************************************)
Create_Rollback(t) ==
  /\ kind # "timer"
  /\ pc[t] = "rollback"
  /\ UNCHANGED calls
  /\ LET s == loc[t].slot
     IN tbl' = IF kind \in {"queue", "binsem"}
               THEN [tbl EXCEPT ![s].free = TRUE, ![s].id = UNINITIALIZED]
               ELSE [tbl EXCEPT ![s].free = TRUE]
  /\ Return(t, Ret("create", ConstructFailCode(kind), -1))
  /\ UNCHANGED <<kind, count, kobj>>
  /\ UNCHANGED <<lockVars, handleVars, selVars, readVars, tickVars, argVars, stubVars, semVars, timerVars, pathVars, nameVars>>

(***************************************************************************)
(* Create, second locked section: populate the slot and count the object.  *)
(* OS_TaskCreate 897-909, OS_QueueCreate 1307-1318, OS_BinSemCreate        *)
(* 1678-1688, OS_CountSemCreate 2020-2033, OS_MutSemCreate 2363-2373.      *)
(* The three semaphore kinds store free = FALSE again here.                *)
(***************************************************************************)
Create_Populate(t) ==
  /\ kind # "timer"
  /\ pc[t] = "constructed"
  /\ UNCHANGED calls
  /\ LET s == loc[t].slot
     IN /\ tbl' = IF kind \in {"binsem", "countsem", "mutex"}
                  THEN [tbl EXCEPT ![s].original_name = loc[t].name, ![s].free = FALSE]
                  ELSE [tbl EXCEPT ![s].original_name = loc[t].name]
        /\ count' = IF HasCount(kind) THEN count + 1 ELSE count
        /\ Return(t, Ret("create", OS_SUCCESS, s))
  /\ UNCHANGED <<kind, kobj>>
  /\ UNCHANGED <<lockVars, handleVars, selVars, readVars, tickVars, argVars, stubVars, semVars, timerVars, pathVars, nameVars>>

(***************************************************************************)
(* OS_TimerCreate after the reservation, all without the table mutex:      *)
(* 226-231 store the names into the slot, 236-243 create the host timer    *)
(* and on failure store free = TRUE.                                       *)
(***************************************************************************)
OS_TimerCreate_Populate(t) ==
  /\ kind = "timer"
  /\ pc[t] = "reserved"
  /\ UNCHANGED calls
  /\ UNCHANGED gone
  /\ tbl' = [tbl EXCEPT ![loc[t].slot].original_name = loc[t].name]
  /\ pc'  = [pc EXCEPT ![t] = "named"]
  /\ UNCHANGED <<kind, count, kobj, loc, last>>
  /\ UNCHANGED <<lockVars, handleVars, selVars, readVars, tickVars, argVars, stubVars, semVars, timerVars, pathVars, nameVars>>

\* the pvTimerID argument of xTimerCreate, &OS_timer_table[i].entry_number:
\* the index of the table entry it points into
pvTimerID(l) == l.i

OS_TimerCreate_Construct(t) ==
  /\ kind = "timer"
  /\ pc[t] = "named"
  /\ UNCHANGED calls
  /\ LET s == loc[t].slot
     IN \/ /\ ~HeapFull
           /\ tbl'  = [tbl EXCEPT ![s].id = NewHostId]
           /\ kobj' = kobj \cup {NewHostId}
           /\ Return(t, Ret("create", OS_SUCCESS, s))
        \/ /\ tbl'  = [tbl EXCEPT ![s].id = UNINITIALIZED, ![s].free = TRUE]
           /\ kobj' = kobj
           /\ Return(t, Ret("create", OS_TIMER_ERR_UNAVAILABLE, -1))
  /\ UNCHANGED <<kind, count>>
  /\ UNCHANGED <<lockVars, handleVars, selVars, readVars, tickVars, argVars, stubVars, semVars, timerVars, pathVars, nameVars>>

(***************************************************************************)
(* Delete of the five kinds of osapi.c.  The validity check and the kernel *)
(* destructor run without the table mutex: OS_TaskDelete 928-942,          *)
(* OS_QueueDelete 1340-1345, OS_BinSemDelete 1705-1713, OS_CountSemDelete  *)
(* 2052-2060, OS_MutSemDelete 2391-2395.                                   *)
(***************************************************************************)
Delete_Check(t, h) ==
  /\ kind # "timer"
  /\ MayCall(t)
  /\ calls' = calls + 1
  /\ IF DeleteRejects(tbl, h)
     THEN /\ Return(t, Ret("delete", OS_ERR_INVALID_ID, -1))
          /\ UNCHANGED <<kind, tbl, count, kobj>>
     ELSE /\ kobj' = kobj \ {tbl[h].id}
          /\ pc'   = [pc EXCEPT ![t] = "deleting"]
          /\ loc'  = [loc EXCEPT ![t] = [name |-> tbl[h].original_name, slot |-> h,
                                         snap |-> tbl[h], i |-> -1]]
          /\ UNCHANGED <<kind, tbl, count, last, gone>>
  /\ UNCHANGED <<lockVars, handleVars, selVars, readVars, tickVars, argVars, stubVars, semVars, timerVars, pathVars, nameVars>>

(***************************************************************************)
(* Delete, locked section: tombstone the slot and decrement the counter    *)
(* (task 948-958, queue 1354-1363, binsem 1716-1723, mutex 2398-2406) or   *)
(* free it (counting semaphore 2063-2070).  original_name is left as is.   *)
(***************************************************************************)
Delete_Commit(t) ==
  /\ kind # "timer"
  /\ pc[t] = "deleting"
  /\ UNCHANGED calls
  /\ LET s == loc[t].slot
     IN /\ tbl' = IF HasDeleted(kind)
                  THEN [tbl EXCEPT ![s].free = FALSE, ![s].deleted = TRUE,
                                   ![s].id = DeletedHostId]
                  ELSE [tbl EXCEPT ![s].free = TRUE, ![s].id = UNINITIALIZED]
        /\ count' = IF HasCount(kind) THEN count - 1 ELSE count
        /\ Return(t, Ret("delete", OS_SUCCESS, -1))
  /\ UNCHANGED <<kind, kobj>>
  /\ UNCHANGED <<lockVars, handleVars, selVars, readVars, tickVars, argVars, stubVars, semVars, timerVars, pathVars, nameVars>>

(***************************************************************************)
(* OS_TimerDelete: unlocked validity check (385-387), free = TRUE under    *)
(* the mutex (389-391), then xTimerDelete of whatever host_timerid the     *)
(* slot holds at that moment (396-401).                                    *)
(***************************************************************************)
OS_TimerDelete_Check(t, h) ==
  /\ kind = "timer"
  /\ MayCall(t)
  /\ calls' = calls + 1
  /\ IF UseRejects(tbl, h)
     THEN /\ Return(t, Ret("delete", OS_ERR_INVALID_ID, -1))
          /\ UNCHANGED <<kind, tbl, count, kobj>>
     ELSE /\ pc'  = [pc EXCEPT ![t] = "tdel_checked"]
          /\ loc' = [loc EXCEPT ![t] = [name |-> tbl[h].original_name, slot |-> h,
                                        snap |-> tbl[h], i |-> -1]]
          /\ UNCHANGED <<kind, tbl, count, kobj, last, gone>>
  /\ UNCHANGED <<lockVars, handleVars, selVars, readVars, tickVars, argVars, stubVars, semVars, timerVars, pathVars, nameVars>>

OS_TimerDelete_Free(t) ==
  /\ kind = "timer"
  /\ pc[t] = "tdel_checked"
  /\ UNCHANGED calls
  /\ UNCHANGED gone
  /\ tbl' = [tbl EXCEPT ![loc[t].slot].free = TRUE]
  /\ pc'  = [pc EXCEPT ![t] = "tdel_freed"]
  /\ UNCHANGED <<kind, count, kobj, loc, last>>
  /\ UNCHANGED <<lockVars, handleVars, selVars, readVars, tickVars, argVars, stubVars, semVars, timerVars, pathVars, nameVars>>

OS_TimerDelete_Host(t) ==
  /\ kind = "timer"
  /\ pc[t] = "tdel_freed"
  /\ UNCHANGED calls
  /\ kobj' = kobj \ {tbl[loc[t].slot].id}
  /\ Return(t, Ret("delete", OS_SUCCESS, -1))
  /\ UNCHANGED <<kind, tbl, count>>
  /\ UNCHANGED <<lockVars, handleVars, selVars, readVars, tickVars, argVars, stubVars, semVars, timerVars, pathVars, nameVars>>

(***************************************************************************)
(* An operation that takes a handle: OS_BinSemGive 1745-1753, OS_BinSemTake*)
(* 1789-1804, OS_BinSemTimedWait, OS_BinSemGetInfo, OS_CountSem*, OS_MutSem*,*)
(* OS_QueuePut, OS_QueueGet, OS_QueueGetInfo, OS_TaskSetPriority,          *)
(* OS_TaskGetInfo 1152-1174, OS_TimerSet 321-323.  All of them reject the  *)
(* handle with the same test and otherwise use the slot's host id.         *)
(***************************************************************************)
Handle_Use(t, h) ==
  /\ MayCall(t)
  /\ calls' = calls + 1
  /\ IF UseRejects(tbl, h)
     THEN Return(t, Ret("use", OS_ERR_INVALID_ID, -1))
     ELSE Return(t, Ret("use", OS_SUCCESS, -1))
  /\ UNCHANGED <<kind, tbl, count, kobj>>
  /\ UNCHANGED <<lockVars, handleVars, selVars, readVars, tickVars, argVars, stubVars, semVars, timerVars, pathVars, nameVars>>

(***************************************************************************)
(* OS_<kind>GetIdByName: an unlocked scan of the table.                    *)
(***************************************************************************)
GetIdByName(t, n) ==
  /\ MayCall(t)
  /\ calls' = calls + 1
  /\ LET i == FindByName(tbl, n)
     IN IF i = -1
        THEN Return(t, Ret("getid", OS_ERR_NAME_NOT_FOUND, -1))
        ELSE Return(t, Ret("getid", OS_SUCCESS, i))
  /\ UNCHANGED <<kind, tbl, count, kobj>>
  /\ UNCHANGED <<lockVars, handleVars, selVars, readVars, tickVars, argVars, stubVars, semVars, timerVars, pathVars, nameVars>>

(***************************************************************************)
(* OS_TaskExit 970-988, called by vStubTask when the entry function of the *)
(* kernel task x returns.  If OS_TaskGetId finds no slot the store goes to *)
(* OS_task_table[OS_ERR_NAME_NOT_FOUND], outside the table: the table is   *)
(* not changed (a crash at that store is the behaviour that stops here).   *)
(***************************************************************************)
OS_TaskExit(x) ==
  /\ kind = "task"
  /\ x \in kobj
  /\ UNCHANGED calls
  /\ UNCHANGED gone
  /\ LET task_id == OS_TaskGetId(tbl, x)
     IN tbl' = IF task_id = -1 THEN tbl
               ELSE [tbl EXCEPT ![task_id].free = TRUE, ![task_id].id = UNINITIALIZED]
  /\ count' = count - 1
  /\ kobj'  = kobj \ {x}
  /\ UNCHANGED <<kind, pc, loc, last>>
  /\ UNCHANGED <<lockVars, handleVars, selVars, readVars, tickVars, argVars, stubVars, semVars, timerVars, pathVars, nameVars>>

Next ==
  \/ \E t \in Procs, n \in Names : Create_Reserve(t, n)
  \/ \E t \in Procs : Create_Construct(t)
  \/ \E t \in Procs : Create_Rollback(t)
  \/ \E t \in Procs : Create_Populate(t)
  \/ \E t \in Procs : OS_TimerCreate_Populate(t)
  \/ \E t \in Procs : OS_TimerCreate_Construct(t)
  \/ \E t \in Procs, h \in 0 .. TableSize(kind) : Delete_Check(t, h)
  \/ \E t \in Procs : Delete_Commit(t)
  \/ \E t \in Procs, h \in 0 .. TableSize(kind) : OS_TimerDelete_Check(t, h)
  \/ \E t \in Procs : OS_TimerDelete_Free(t)
  \/ \E t \in Procs : OS_TimerDelete_Host(t)
  \/ \E t \in Procs, h \in 0 .. TableSize(kind) : Handle_Use(t, h)
  \/ \E t \in Procs, n \in Names : GetIdByName(t, n)
  \/ \E x \in HostIds : OS_TaskExit(x)

Spec == Init /\ [][Next]_vars

(***************************************************************************)
(*                           Table mutexes                                 *)
(*                                                                         *)
(* Every call that touches a table runs one or two sections under that     *)
(* table's mutex: Create runs one (rejected in the first section) or two   *)
(* (reservation, then rollback or populate), Delete, GetInfo, OS_TaskExit  *)
(* and OS_close run one.  The populate section calls OS_FindCreator, which *)
(* scans OS_task_table; OS_TimerCreate calls it after its only section.    *)
(***************************************************************************)
Locks == Kinds \cup {"fd"}

\* a creator lookup that takes the task table's mutex for its scan
FindCreator_TakesTaskLock == {"task"}

\* the table mutexes OS_FindCreator takes for its scan of OS_task_table
\* (part_003:2812-2823): none, not even OS_task_table_sem
FindCreatorLocks == {}

\* no table is in use: the tables as OS_API_Init leaves them
TablesIdle ==
  /\ kind = "task"
  /\ tbl = [i \in 0 .. (TableSize("task") - 1) |-> InitSlot]
  /\ count = 0
  /\ kobj = {}
  /\ pc = [t \in Procs |-> "idle"]
  /\ loc = [t \in Procs |-> NoLoc]
  /\ last = NoLast
  /\ calls = 0
  /\ gone = {}

\* task t enters a call on table k that will run n locked sections;
\* c: the call looks up its creator (the populating path of a Create)
L_Call(t, k, n, c) ==
  /\ lpc[t].at = "idle"
  /\ k = "timer" => n = 1
  /\ c => (n = 2 \/ k = "timer")
  /\ lpc' = [lpc EXCEPT ![t] = [at |-> "want", k |-> k, left |-> n,
                                 creator |-> IF c THEN "pending" ELSE "none"]]
  /\ UNCHANGED <<holder, tableVars, handleVars, selVars, readVars, tickVars, argVars, stubVars, semVars, timerVars, pathVars, nameVars>>

\* xSemaphoreTake(OS_<k>_table_sem, portMAX_DELAY)
L_Take(t) ==
  /\ lpc[t].at = "want"
  /\ holder[lpc[t].k] = "none"
  /\ holder' = [holder EXCEPT ![lpc[t].k] = t]
  /\ lpc' = [lpc EXCEPT ![t].at = "in"]
  /\ UNCHANGED <<tableVars, handleVars, selVars, readVars, tickVars, argVars, stubVars, semVars, timerVars, pathVars, nameVars>>

\* slot.creator = OS_FindCreator(): inside the populate section (part_003:903,
\* 1314, 1684, 2026, 2369, osfileapi.c:264), for a timer after the mutex
\* has been given back (ostimer.c:224-226)
L_FindCreator(t) ==
  /\ lpc[t].creator = "pending"
  /\ \/ lpc[t].k # "timer" /\ lpc[t].at = "in" /\ lpc[t].left = 1
     \/ lpc[t].k = "timer" /\ lpc[t].at = "unlocked"
  /\ \A l \in FindCreatorLocks : holder[l] = "none"
  /\ holder' = [l \in Locks |-> IF l \in FindCreatorLocks THEN t ELSE holder[l]]
  /\ lpc' = [lpc EXCEPT ![t].creator = "done"]
  /\ UNCHANGED <<tableVars, handleVars, selVars, readVars, tickVars, argVars, stubVars, semVars, timerVars, pathVars, nameVars>>

\* xSemaphoreGive(OS_<k>_table_sem) at the end of a locked section
L_Give(t) ==
  /\ lpc[t].at = "in"
  /\ ~(lpc[t].creator = "pending" /\ lpc[t].k # "timer" /\ lpc[t].left = 1)
  /\ holder' = [holder EXCEPT ![lpc[t].k] = "none"]
  /\ lpc' = [lpc EXCEPT ![t].at = "unlocked", ![t].left = lpc[t].left - 1]
  /\ UNCHANGED <<tableVars, handleVars, selVars, readVars, tickVars, argVars, stubVars, semVars, timerVars, pathVars, nameVars>>

\* the unlocked code between two sections (the kernel constructor) is done
L_Resume(t) ==
  /\ lpc[t].at = "unlocked"
  /\ lpc[t].left > 0
  /\ lpc' = [lpc EXCEPT ![t].at = "want"]
  /\ UNCHANGED <<holder, tableVars, handleVars, selVars, readVars, tickVars, argVars, stubVars, semVars, timerVars, pathVars, nameVars>>

\* the call returns
L_Return(t) ==
  /\ lpc[t].at = "unlocked"
  /\ lpc[t].left = 0
  /\ lpc[t].creator # "pending"
  /\ lpc' = [lpc EXCEPT ![t] = [at |-> "idle", k |-> "none", left |-> 0, creator |-> "none"]]
  /\ UNCHANGED <<holder, tableVars, handleVars, selVars, readVars, tickVars, argVars, stubVars, semVars, timerVars, pathVars, nameVars>>

LockInit == TablesIdle /\ LocksIdle /\ HandlesIdle /\ SelectIdle /\ ReadsIdle /\ TicksIdle /\ ArgsIdle /\ StubsIdle /\ BinSemIdle /\ TimersIdle /\ PathsIdle /\ NamesIdle

LockNext ==
  \/ \E t \in Procs, k \in Locks, n \in 1 .. 2, c \in BOOLEAN : L_Call(t, k, n, c)
  \/ \E t \in Procs : L_Take(t)
  \/ \E t \in Procs : L_FindCreator(t)
  \/ \E t \in Procs : L_Give(t)
  \/ \E t \in Procs : L_Resume(t)
  \/ \E t \in Procs : L_Return(t)

SpecLocks == LockInit /\ [][LockNext]_vars

(***************************************************************************)
(*                      Validation of handles                              *)
(*                                                                         *)
(* Calls that index a table with a caller-supplied uint32: OS_close on     *)
(* OS_FDTable, OS_BinSemGive on OS_bin_sem_table, OS_TaskExit on           *)
(* OS_task_table with the result of OS_TaskGetId, and the id-to-index      *)
(* conversion OS_ConvertToArrayIndex.  htab draws the table from all its   *)
(* occupancies and the calls take every handle up to two past the end and  *)
(* the error value of a failed lookup.                                     *)
(***************************************************************************)
HKinds == {"fd", "task", "binsem"}

HSize(k) ==
  CASE k = "fd"     -> OS_MAX_NUM_OPEN_FILES
    [] k = "task"   -> OS_TASK_TABLE_SIZE
    [] k = "binsem" -> OS_BIN_SEM_TABLE_SIZE

\* (uint32) OS_ERR_NAME_NOT_FOUND, what OS_TaskGetId returns when the
\* calling task is in no slot: a negative int32, so 2^32 minus a small number
TaskNotFound == -1

\* h < size as the code compares it, unsigned: a negative value stands for
\* 2^32 + h and is not below any table size
BelowSize(h, size) == h >= 0 /\ h < size

Handles(k) == (0 .. (HSize(k) + 1)) \cup {TaskNotFound}

OS_FS_SUCCESS        == "OS_FS_SUCCESS"
OS_FS_ERROR          == "OS_FS_ERROR"
OS_FS_ERR_INVALID_FD == "OS_FS_ERR_INVALID_FD"
OS_FS_ERR_PATH_INVALID == "OS_FS_ERR_PATH_INVALID"

\* OS_close (osfileapi.c:451-527): OS_FDTable[filedes].Path is read for
\* OS_GetVolumeType before filedes is tested; an in-range valid descriptor
\* is closed and its slot invalidated whether or not fclose succeeds; a path
\* on neither kind of volume leaves the slot and returns PATH_INVALID
OS_close(filedes) ==
  /\ hk = "fd"
  /\ hacc' = {filedes}
  /\ IF ~BelowSize(filedes, OS_MAX_NUM_OPEN_FILES) \/ ~htab[filedes]
     THEN /\ hcall' = [op |-> "close", h |-> filedes, code |-> OS_FS_ERR_INVALID_FD]
          /\ htab' = htab
     ELSE \/ /\ \E c \in {OS_FS_SUCCESS, OS_FS_ERROR} :
                  hcall' = [op |-> "close", h |-> filedes, code |-> c]
             /\ htab' = [htab EXCEPT ![filedes] = FALSE]
          \/ /\ hcall' = [op |-> "close", h |-> filedes,
                          code |-> OS_FS_ERR_PATH_INVALID]
             /\ htab' = htab
  /\ UNCHANGED <<hk, fpc, tableVars, lockVars, selVars, readVars, tickVars, argVars, stubVars, semVars, timerVars, pathVars, nameVars>>

\* OS_BinSemGive (part_003:1745-1753): the range test comes first and
\* short-circuits the read of the slot's free flag
OS_BinSemGive(sem_id) ==
  /\ hk = "binsem"
  /\ IF ~BelowSize(sem_id, OS_BIN_SEM_TABLE_SIZE)
     THEN /\ hacc' = {}
          /\ hcall' = [op |-> "give", h |-> sem_id, code |-> OS_ERR_INVALID_ID]
     ELSE /\ hacc' = {sem_id}
          /\ hcall' = [op |-> "give", h |-> sem_id,
                       code |-> IF htab[sem_id] THEN OS_SUCCESS ELSE OS_ERR_INVALID_ID]
  /\ UNCHANGED <<hk, htab, fpc, tableVars, lockVars, selVars, readVars, tickVars, argVars, stubVars, semVars, timerVars, pathVars, nameVars>>

\* OS_TaskExit (part_003:970-988) with task_id the result of OS_TaskGetId:
\* the slot of the calling task or TaskNotFound.  task_id is not tested; the
\* stores go to OS_task_table[task_id], inside the table or wherever that is
H_TaskExit(task_id) ==
  /\ hk = "task"
  /\ task_id = TaskNotFound \/ (BelowSize(task_id, OS_TASK_TABLE_SIZE) /\ htab[task_id])
  /\ hacc' = {task_id}
  /\ htab' = IF BelowSize(task_id, OS_TASK_TABLE_SIZE)
             THEN [htab EXCEPT ![task_id] = FALSE] ELSE htab
  /\ hcall' = [op |-> "exit", h |-> task_id, code |-> "none"]
  /\ UNCHANGED <<hk, fpc, tableVars, lockVars, selVars, readVars, tickVars, argVars, stubVars, semVars, timerVars, pathVars, nameVars>>

\* OS_ConvertToArrayIndex (osapi-idmap.c:17-22): *ArrayIndex = object_id
OS_ConvertToArrayIndex(object_id) ==
  /\ hacc' = {}
  /\ hcall' = [op |-> "convert", h |-> object_id, code |-> OS_SUCCESS]
  /\ UNCHANGED <<hk, htab, fpc, tableVars, lockVars, selVars, readVars, tickVars, argVars, stubVars, semVars, timerVars, pathVars, nameVars>>

HandleInit ==
  /\ TablesIdle /\ LocksIdle /\ SelectIdle /\ ReadsIdle /\ TicksIdle /\ ArgsIdle /\ StubsIdle /\ BinSemIdle /\ TimersIdle /\ PathsIdle /\ NamesIdle
  /\ hk \in HKinds
  /\ htab \in [0 .. (HSize(hk) - 1) -> BOOLEAN]
  /\ hcall = NoCall
  /\ hacc = {}
  /\ fpc = [t \in Procs |-> NoOpen]

HandleNext ==
  \/ \E h \in Handles(hk) : OS_close(h)
  \/ \E h \in Handles(hk) : OS_BinSemGive(h)
  \/ \E h \in Handles(hk) : H_TaskExit(h)
  \/ \E h \in Handles(hk) : OS_ConvertToArrayIndex(h)

SpecHandles == HandleInit /\ [][HandleNext]_vars

(***************************************************************************)
(*                          Select engine                                  *)
(*                                                                         *)
(* The repository has two osselect.c.  The "split" one (osloader.c         *)
(* 474-757) keeps a table of sockets and waits once per direction; the     *)
(* "combined" one (osloader.c 780-1126) keeps connected/disconnected in    *)
(* the table and waits once on one socket set.  A build has one of them:   *)
(* variant is chosen at start.  The host's FreeRTOS_select and             *)
(* FreeRTOS_issocketconnected are outside the repository and answer        *)
(* nondeterministically.                                                   *)
(***************************************************************************)
Variants == {"split", "combined"}

OS_STREAM_STATE_READABLE == "READABLE"
OS_STREAM_STATE_WRITABLE == "WRITABLE"
\* any other bit of the caller's uint32 flag word
OtherFlag == "OTHER"
FlagWords == SUBSET {OS_STREAM_STATE_READABLE, OS_STREAM_STATE_WRITABLE, OtherFlag}

OS_ERROR_TIMEOUT == "OS_ERROR_TIMEOUT"

\* msecs: OS_PEND (wait forever), OS_CHECK (poll) and a positive time
Timeouts == {-1, 0, 100}

\* What FreeRTOS_select(set, ticks) can answer for a set with rdM tagged
\* eSELECT_READ and wrM tagged eSELECT_WRITE: a negative errno, 0 when the
\* time ran out (never with portMAX_DELAY), or a positive value with the
\* event bits of at least one member, each among the bits it was tagged with.
\* -pdFREERTOS_ERRNO_EINTR is retried by OS_DoSelect and is not an answer.
FreeRTOS_select(rdM, wrM, msecs) ==
  {[os_status |-> -1, confR |-> {}, confW |-> {}]}
  \cup (IF msecs >= 0 THEN {[os_status |-> 0, confR |-> {}, confW |-> {}]} ELSE {})
  \cup {[os_status |-> 1, confR |-> r, confW |-> w] :
          <<r, w>> \in {x \in (SUBSET rdM) \X (SUBSET wrM) : x[1] \cup x[2] # {}}}

\* FreeRTOS_FD_ISSET(socket, set) takes no direction: the socket's event bits
FreeRTOS_FD_ISSET(i, h) ==
  (IF i \in h.confR THEN {"eSELECT_READ"} ELSE {})
  \cup (IF i \in h.confW THEN {"eSELECT_WRITE"} ELSE {})

OS_DoSelect(os_status) ==
  IF os_status < 0 THEN OS_ERROR
  ELSE IF os_status = 0 THEN OS_ERROR_TIMEOUT
  ELSE OS_SUCCESS

UpdateConnectionStatus(s, isConnected) ==
  [fd |-> s.fd,
   connected |-> isConnected,
   disconnected |-> IF isConnected THEN FALSE
                    ELSE IF s.connected THEN TRUE ELSE s.disconnected]

\* *SelectFlags = 0 on a wait that did not succeed
FailedFlags_Kept(flags) == flags
FailedFlags(flags) == {}

\* the flags left by a wait that succeeded with the event bits `bits`
ConfirmedFlags(flags, bits) ==
  (flags \ (IF "eSELECT_READ" \in bits THEN {} ELSE {OS_STREAM_STATE_READABLE}))
         \ (IF "eSELECT_WRITE" \in bits THEN {} ELSE {OS_STREAM_STATE_WRITABLE})

\* the flags left when a timeout is turned into success for a disconnected
\* stream: the directions not in xSelectBits are cleared
OverrideFlags_Cleared(flags, xSelectBits) == {}
OverrideFlags(flags, xSelectBits) == ConfirmedFlags(flags, xSelectBits)

\* the record of a single-stream wait; st is what OS_DoSelect returned,
\* rdSt and wrSt the same for the directions that were waited for
SingleWait(id, flags, out, code, h, rd, wr, waited) ==
  [op |-> "single", id |-> id, flagsIn |-> flags, flagsOut |-> out,
   rdNull |-> FALSE, wrNull |-> FALSE, rdIn |-> {}, wrIn |-> {},
   rdOut |-> {}, wrOut |-> {}, code |-> code,
   st |-> IF waited THEN OS_DoSelect(h.os_status) ELSE "none",
   rdSt |-> IF rd THEN OS_DoSelect(h.os_status) ELSE "none",
   wrSt |-> IF wr THEN OS_DoSelect(h.os_status) ELSE "none",
   confR |-> h.confR, confW |-> h.confW]

NoAnswer == [os_status |-> 0, confR |-> {}, confW |-> {}]

\* what OS_SelectSingle_Impl of the combined variant makes of the host's
\* answer h once the stream has been probed (entry s): the flag word it
\* leaves and the code it returns (osloader.c:1004-1033)
SelectSingleResult(id, flags, xSelectBits, h, s) ==
  LET return_code == OS_DoSelect(h.os_status)
  IN IF return_code = OS_SUCCESS
     THEN [flags |-> ConfirmedFlags(flags, FreeRTOS_FD_ISSET(id, h)),
           code |-> OS_SUCCESS]
     ELSE IF return_code = OS_ERROR_TIMEOUT /\ s.disconnected
     THEN [flags |-> OverrideFlags(flags, xSelectBits), code |-> OS_SUCCESS]
     ELSE [flags |-> FailedFlags(flags), code |-> return_code]

\* OS_SelectSingle_Impl of the combined variant (osloader.c:978-1043)
OS_SelectSingle_Impl(id, flags, msecs) ==
  /\ sel = NoWait
  /\ variant = "combined"
  /\ strm[id].fd
  /\ IF flags = {}
     THEN /\ sel' = SingleWait(id, flags, flags, OS_SUCCESS, NoAnswer, FALSE, FALSE, FALSE)
          /\ strm' = strm
     ELSE LET rd == OS_STREAM_STATE_READABLE \in flags
              wr == OS_STREAM_STATE_WRITABLE \in flags
              xSelectBits == (IF rd THEN {"eSELECT_READ"} ELSE {})
                             \cup (IF wr THEN {"eSELECT_WRITE"} ELSE {})
          IN \E h \in FreeRTOS_select(IF rd THEN {id} ELSE {},
                                      IF wr THEN {id} ELSE {}, msecs),
                isConnected \in BOOLEAN :
               LET s == UpdateConnectionStatus(strm[id], isConnected)
               IN /\ strm' = [strm EXCEPT ![id] = s]
                  /\ sel' = LET r == SelectSingleResult(id, flags, xSelectBits, h, s)
                            IN SingleWait(id, flags, r.flags, r.code, h, rd, wr, TRUE)
  /\ UNCHANGED <<variant, tableVars, lockVars, handleVars, readVars, tickVars, argVars, stubVars, semVars, timerVars, pathVars, nameVars>>

\* OS_SelectSingle_Impl of the split variant (osloader.c:627-673): one
\* direction is waited for, READ if requested, else WRITE
OS_SelectSingle_Impl_Split(id, flags, msecs) ==
  /\ sel = NoWait
  /\ variant = "split"
  /\ strm[id].fd
  /\ LET rd == OS_STREAM_STATE_READABLE \in flags
         wr == ~rd /\ OS_STREAM_STATE_WRITABLE \in flags
     IN IF ~rd /\ ~wr
        THEN sel' = SingleWait(id, flags, flags, OS_SUCCESS, NoAnswer, FALSE, FALSE, FALSE)
        ELSE \E h \in FreeRTOS_select(IF rd THEN {id} ELSE {},
                                      IF wr THEN {id} ELSE {}, msecs) :
               LET return_code == OS_DoSelect(h.os_status)
               IN sel' =
                    IF return_code = OS_SUCCESS
                    THEN SingleWait(id, flags,
                           IF FreeRTOS_FD_ISSET(id, h) = {}
                           THEN flags \ {IF rd THEN OS_STREAM_STATE_READABLE
                                         ELSE OS_STREAM_STATE_WRITABLE}
                           ELSE flags,
                           OS_SUCCESS, h, rd, wr, TRUE)
                    ELSE SingleWait(id, flags, FailedFlags(flags), return_code, h, rd, wr, TRUE)
  /\ UNCHANGED <<variant, strm, tableVars, lockVars, handleVars, readVars, tickVars, argVars, stubVars, semVars, timerVars, pathVars, nameVars>>

\* the members OS_FdSet_ConvertIn_Impl puts in the socket set: the streams
\* of the bitmap whose descriptor is not NULL
OS_FdSet_ConvertIn_Impl(tab, OSAL_set) == {i \in OSAL_set : tab[i].fd}

\* OS_FdSet_ConvertOut_Impl of the combined variant (osloader.c:877-919):
\* every stream of the bitmap with a descriptor is probed; its bit stays if
\* it is disconnected or FreeRTOS_FD_ISSET is nonzero
OS_FdSet_ConvertOut_Impl(tab, h, Input, isConnected) ==
  LET probed == [i \in Streams |->
                   IF i \in Input /\ tab[i].fd
                   THEN UpdateConnectionStatus(tab[i], isConnected[i]) ELSE tab[i]]
  IN [tab |-> probed,
      set |-> {i \in Input : tab[i].fd /\ (probed[i].disconnected
                                           \/ FreeRTOS_FD_ISSET(i, h) # {})},
      disconn |-> \E i \in Input : tab[i].fd /\ probed[i].disconnected]

\* OS_FdSet_ConvertOut_Impl of the split variant (osloader.c:548-575)
OS_FdSet_ConvertOut_Impl_Split(tab, h, Input) ==
  {i \in Input : tab[i].fd /\ FreeRTOS_FD_ISSET(i, h) # {}}

\* the record of a multi-stream wait; st is what the one OS_DoSelect of the
\* combined variant returned, rdSt and wrSt what the wait covering each
\* requested direction returned
MultiWait(rdNull, rdIn, wrNull, wrIn, rdOut, wrOut, code, st, rdSt, wrSt, confR, confW) ==
  [op |-> "multi", id |-> 0, flagsIn |-> {}, flagsOut |-> {},
   rdNull |-> rdNull, wrNull |-> wrNull, rdIn |-> rdIn, wrIn |-> wrIn,
   rdOut |-> rdOut, wrOut |-> wrOut, code |-> code, st |-> st,
   rdSt |-> rdSt, wrSt |-> wrSt, confR |-> confR, confW |-> confW]

\* a bitmap argument: NULL, or a set of stream ids
FdSetArgs == {<<TRUE, {}>>} \cup {<<FALSE, b>> : b \in SUBSET Streams}

\* OS_SelectMultiple_Impl of the combined variant (osloader.c:1053-1091)
OS_SelectMultiple_Impl(ReadSet, WriteSet, msecs) ==
  /\ sel = NoWait
  /\ variant = "combined"
  /\ LET rdM == OS_FdSet_ConvertIn_Impl(strm, ReadSet[2])
         wrM == OS_FdSet_ConvertIn_Impl(strm, WriteSet[2])
     IN \E h \in FreeRTOS_select(rdM, wrM, msecs),
           c1 \in [rdM -> BOOLEAN], c2 \in [wrM -> BOOLEAN] :
          LET return_code == OS_DoSelect(h.os_status)
              rdSt == IF ReadSet[1] THEN "none" ELSE return_code
              wrSt == IF WriteSet[1] THEN "none" ELSE return_code
              rd == OS_FdSet_ConvertOut_Impl(strm, h, ReadSet[2], c1)
              wr == OS_FdSet_ConvertOut_Impl(rd.tab, h, WriteSet[2], c2)
          IN IF return_code = OS_ERROR
             THEN /\ strm' = strm
                  /\ sel' = MultiWait(ReadSet[1], ReadSet[2], WriteSet[1], WriteSet[2],
                                      ReadSet[2], WriteSet[2], OS_ERROR,
                                      return_code, rdSt, wrSt, h.confR, h.confW)
             ELSE /\ strm' = wr.tab
                  /\ sel' = MultiWait(ReadSet[1], ReadSet[2], WriteSet[1], WriteSet[2],
                                      rd.set, wr.set,
                                      IF rd.disconn \/ wr.disconn
                                      THEN OS_SUCCESS ELSE return_code,
                                      return_code, rdSt, wrSt, h.confR, h.confW)
  /\ UNCHANGED <<variant, tableVars, lockVars, handleVars, readVars, tickVars, argVars, stubVars, semVars, timerVars, pathVars, nameVars>>

\* OS_SelectMultiple_Impl of the split variant (osloader.c:684-723): a wait
\* per non-NULL bitmap; the result of the write wait is converted into
\* ReadSet.  With ReadSet NULL that conversion goes through a null pointer:
\* the call faults, or goes on with neither bitmap touched.
OS_SelectMultiple_Impl_Split(ReadSet, WriteSet, msecs) ==
  /\ sel = NoWait
  /\ variant = "split"
  /\ LET rdM == OS_FdSet_ConvertIn_Impl(strm, ReadSet[2])
         wrM == OS_FdSet_ConvertIn_Impl(strm, WriteSet[2])
         none == [os_status |-> 1, confR |-> {}, confW |-> {}]
     IN \E h1 \in IF ReadSet[1] THEN {none} ELSE FreeRTOS_select(rdM, {}, msecs),
           h2 \in IF WriteSet[1] THEN {none} ELSE FreeRTOS_select({}, wrM, msecs),
           fault \in BOOLEAN :
          LET rd_return_code == OS_DoSelect(h1.os_status)
              wr_return_code == OS_DoSelect(h2.os_status)
              rd1 == IF ~ReadSet[1] /\ rd_return_code = OS_SUCCESS
                     THEN OS_FdSet_ConvertOut_Impl_Split(strm, h1, ReadSet[2])
                     ELSE ReadSet[2]
              wrDone == ~WriteSet[1] /\ wr_return_code = OS_SUCCESS
              rd2 == IF wrDone /\ ~ReadSet[1]
                     THEN OS_FdSet_ConvertOut_Impl_Split(strm, h2, rd1)
                     ELSE rd1
          IN /\ fault => (wrDone /\ ReadSet[1])
             /\ sel' = MultiWait(ReadSet[1], ReadSet[2], WriteSet[1], WriteSet[2],
                                 rd2, WriteSet[2],
                                 IF fault THEN "FAULT"
                                 ELSE IF rd_return_code = OS_SUCCESS
                                         /\ wr_return_code = OS_SUCCESS
                                 THEN OS_SUCCESS ELSE OS_ERROR,
                                 "none",
                                 IF ReadSet[1] THEN "none" ELSE rd_return_code,
                                 IF WriteSet[1] THEN "none" ELSE wr_return_code,
                                 h1.confR, h2.confW)
  /\ UNCHANGED <<variant, strm, tableVars, lockVars, handleVars, readVars, tickVars, argVars, stubVars, semVars, timerVars, pathVars, nameVars>>

\* OS_SocketOpen_Impl (osnetwork.c:105-190): FreeRTOS_socket gives the entry
\* a descriptor, or fails and leaves it NULL
OS_SocketOpen_Impl(id) ==
  /\ sel = NoWait
  /\ ~strm[id].fd
  /\ \E ok \in BOOLEAN : strm' = [strm EXCEPT ![id].fd = ok]
  /\ sel' = [NoWait EXCEPT !.op = "open", !.id = id]
  /\ UNCHANGED <<variant, tableVars, lockVars, handleVars, readVars, tickVars, argVars, stubVars, semVars, timerVars, pathVars, nameVars>>

\* OS_GenericClose_Impl (part_004:163-234) on a socket: the entry is reset
\* when FreeRTOS_closesocket returns 1 and left as it is otherwise
OS_GenericClose_Impl(id) ==
  /\ sel = NoWait
  /\ strm[id].fd
  /\ \E status \in {0, 1} :
       /\ strm' = IF status # 1 THEN strm ELSE [strm EXCEPT ![id] = ClosedStream]
       /\ sel' = [NoWait EXCEPT !.op = "close", !.id = id,
                    !.code = IF status # 1 THEN OS_FS_ERROR ELSE OS_FS_SUCCESS]
  /\ UNCHANGED <<variant, tableVars, lockVars, handleVars, readVars, tickVars, argVars, stubVars, semVars, timerVars, pathVars, nameVars>>

\* the call returns: the caller has the code and the flags or bitmaps
Select_Return ==
  /\ sel # NoWait
  /\ sel' = NoWait
  /\ UNCHANGED <<variant, strm, tableVars, lockVars, handleVars, readVars, tickVars, argVars, stubVars, semVars, timerVars, pathVars, nameVars>>

SelectInit ==
  /\ TablesIdle /\ LocksIdle /\ HandlesIdle /\ ReadsIdle /\ TicksIdle /\ ArgsIdle /\ StubsIdle /\ BinSemIdle /\ TimersIdle /\ PathsIdle /\ NamesIdle
  /\ variant \in Variants
  /\ strm = [i \in Streams |-> ClosedStream]
  /\ sel = NoWait

SelectNext ==
  \/ \E i \in Streams, f \in FlagWords, m \in Timeouts : OS_SelectSingle_Impl(i, f, m)
  \/ \E i \in Streams, f \in FlagWords, m \in Timeouts : OS_SelectSingle_Impl_Split(i, f, m)
  \/ \E r \in FdSetArgs, w \in FdSetArgs, m \in Timeouts : OS_SelectMultiple_Impl(r, w, m)
  \/ \E r \in FdSetArgs, w \in FdSetArgs, m \in Timeouts : OS_SelectMultiple_Impl_Split(r, w, m)
  \/ \E i \in Streams : OS_SocketOpen_Impl(i)
  \/ \E i \in Streams : OS_GenericClose_Impl(i)
  \/ Select_Return

SpecSelect == SelectInit /\ [][SelectNext]_vars

(***************************************************************************)
(*                            Stream reads                                 *)
(*                                                                         *)
(* OS_GenericRead_Impl on a socket: a single-stream wait for READABLE      *)
(* (combined osselect.c) followed by FreeRTOS_recv.  link is the host's    *)
(* view of each stream's connection; the probe of the wait,                *)
(* FreeRTOS_issocketconnected, answers from it.                            *)
(***************************************************************************)
Links == {"none", "up", "dropped"}

\* a socket that has been opened and not yet waited on
OpenStream == [fd |-> TRUE, connected |-> FALSE, disconnected |-> FALSE]

\* 0, which is also the value of OS_SUCCESS: what a read returns at the end
\* of the stream
EndOfStream == OS_SUCCESS

\* What FreeRTOS_recv(fd, buffer, nbytes, 0) can answer: a byte count, 0 when
\* nothing arrived in the socket's receive time, -pdFREERTOS_ERRNO_ENOTCONN
\* on a socket that is not connected, or another negative errno.
FreeRTOS_recv(l) ==
  {"bytes", "zero", "errno"} \cup (IF l = "up" THEN {} ELSE {"ENOTCONN"})

\* the code OS_GenericRead_Impl makes of the status of FreeRTOS_recv; status
\* is a size_t, so the test status < 0 is never true and every errno other
\* than ENOTCONN is returned as it is, like a byte count
RecvCode(status, disconnected) ==
  CASE status = "ENOTCONN" -> EndOfStream
    [] status = "zero"     -> IF disconnected THEN EndOfStream ELSE OS_ERROR_TIMEOUT
    [] status = "errno"    -> "errno"
    [] status = "bytes"    -> "bytes"

\* OS_SocketConnect_Impl (osnetwork.c:246-311) when FreeRTOS_connect
\* succeeds: no entry of the I/O table is written
OS_SocketConnect_Impl(id) ==
  /\ strm[id].fd
  /\ link[id] # "up"
  /\ link' = [link EXCEPT ![id] = "up"]
  /\ UNCHANGED <<rcall, selVars, tableVars, lockVars, handleVars, tickVars, argVars, stubVars, semVars, timerVars, pathVars, nameVars>>

\* the peer closes the connection
PeerDisconnects(id) ==
  /\ link[id] = "up"
  /\ link' = [link EXCEPT ![id] = "dropped"]
  /\ UNCHANGED <<rcall, selVars, tableVars, lockVars, handleVars, tickVars, argVars, stubVars, semVars, timerVars, pathVars, nameVars>>

\* OS_GenericRead_Impl (part_004:305-376) on a selectable stream
OS_GenericRead_Impl(id, nbytes, timeout) ==
  /\ strm[id].fd
  /\ IF nbytes = 0
     THEN /\ rcall' = [op |-> "read", id |-> id, nbytes |-> nbytes,
                       timeout |-> timeout, code |-> OS_SUCCESS]
          /\ strm' = strm
     ELSE \E h \in FreeRTOS_select({id}, {}, timeout), status \in FreeRTOS_recv(link[id]) :
            LET operation == {OS_STREAM_STATE_READABLE}
                s == UpdateConnectionStatus(strm[id], link[id] = "up")
                r == SelectSingleResult(id, operation, {"eSELECT_READ"}, h, s)
            IN /\ strm' = [strm EXCEPT ![id] = s]
               /\ rcall' = [op |-> "read", id |-> id, nbytes |-> nbytes,
                            timeout |-> timeout,
                            code |-> IF r.code = OS_SUCCESS
                                        /\ OS_STREAM_STATE_READABLE \in r.flags
                                     THEN RecvCode(status, s.disconnected)
                                     ELSE r.code]
  /\ UNCHANGED <<link, variant, sel, tableVars, lockVars, handleVars, tickVars, argVars, stubVars, semVars, timerVars, pathVars, nameVars>>

ReadInit ==
  /\ TablesIdle /\ LocksIdle /\ HandlesIdle /\ TicksIdle /\ ArgsIdle /\ StubsIdle /\ BinSemIdle /\ TimersIdle /\ PathsIdle /\ NamesIdle
  /\ variant = "combined"
  /\ sel = NoWait
  /\ strm = [i \in Streams |-> OpenStream]
  /\ link = [i \in Streams |-> "none"]
  /\ rcall = NoRead

ReadNext ==
  \/ \E i \in Streams : OS_SocketConnect_Impl(i)
  \/ \E i \in Streams : PeerDisconnects(i)
  \/ \E i \in Streams, n \in {0, 1}, m \in Timeouts : OS_GenericRead_Impl(i, n, m)

SpecRead == ReadInit /\ [][ReadNext]_vars

(***************************************************************************)
(*                          Tick conversion                                *)
(*                                                                         *)
(* OS_UsecsToTicks and OS_TicksToUsecs (ostimer.c:119-146) and the timeout *)
(* OS_DoSelect hands to FreeRTOS_select (osloader.c:929-948).  The         *)
(* arithmetic is uint32; the arguments taken here stay far below 2^32.     *)
(***************************************************************************)
\* configTICK_RATE_HZ is set in FreeRTOSConfig.h, outside the repository
TickRates == {100, 1000}

usecs_per_tick(rate) == 1000000 \div rate

OS_UsecsToTicks(usecs, rate) ==
  IF usecs < usecs_per_tick(rate) THEN 1 ELSE usecs \div usecs_per_tick(rate)

OS_TicksToUsecs(ticks, rate) == ticks * usecs_per_tick(rate)

\* the ticks OS_DoSelect gives FreeRTOS_select (osloader.c:935-942)
DoSelectTicks(msecs, rate) ==
  IF msecs >= 0 THEN [forever |-> FALSE, ticks |-> OS_UsecsToTicks(msecs * 1000, rate)]
  ELSE [forever |-> TRUE, ticks |-> 0]

\* a call of OS_UsecsToTicks
UsecsToTicks_Call(usecs) ==
  /\ tcall = NoTicks
  /\ tcall' = [op |-> "UsecsToTicks", arg |-> usecs, forever |-> FALSE,
               ticks |-> OS_UsecsToTicks(usecs, tickRate), usecs |-> 0]
  /\ UNCHANGED <<tickRate, tableVars, lockVars, handleVars, selVars, readVars, argVars, stubVars, semVars, timerVars, pathVars, nameVars>>

\* a call of OS_TicksToUsecs on the ticks the last conversion gave
TicksToUsecs_Call ==
  /\ tcall.op = "UsecsToTicks"
  /\ tcall' = [tcall EXCEPT !.op = "RoundTrip",
                            !.usecs = OS_TicksToUsecs(tcall.ticks, tickRate)]
  /\ UNCHANGED <<tickRate, tableVars, lockVars, handleVars, selVars, readVars, argVars, stubVars, semVars, timerVars, pathVars, nameVars>>

\* OS_DoSelect up to its call of FreeRTOS_select
DoSelect_Call(msecs) ==
  /\ tcall = NoTicks
  /\ LET t == DoSelectTicks(msecs, tickRate)
     IN tcall' = [op |-> "DoSelect", arg |-> msecs, forever |-> t.forever,
                  ticks |-> t.ticks, usecs |-> 0]
  /\ UNCHANGED <<tickRate, tableVars, lockVars, handleVars, selVars, readVars, argVars, stubVars, semVars, timerVars, pathVars, nameVars>>

\* the caller has the result
Ticks_Return ==
  /\ tcall.op \in {"RoundTrip", "DoSelect"}
  /\ tcall' = NoTicks
  /\ UNCHANGED <<tickRate, tableVars, lockVars, handleVars, selVars, readVars, argVars, stubVars, semVars, timerVars, pathVars, nameVars>>

TickInit ==
  /\ TablesIdle /\ LocksIdle /\ HandlesIdle /\ SelectIdle /\ ReadsIdle /\ ArgsIdle /\ StubsIdle /\ BinSemIdle /\ TimersIdle /\ PathsIdle /\ NamesIdle
  /\ tickRate \in TickRates
  /\ tcall = NoTicks

TickNext ==
  \/ \E u \in 0 .. MaxUsecs : UsecsToTicks_Call(u)
  \/ TicksToUsecs_Call
  \/ \E m \in -1 .. MaxMsecs : DoSelect_Call(m)
  \/ Ticks_Return

SpecTicks == TickInit /\ [][TickNext]_vars

(***************************************************************************)
(*                        Argument validation                              *)
(*                                                                         *)
(* The Create, Delete and GetIdByName functions as one caller runs them,   *)
(* from the first test of an argument to the return, together with the     *)
(* file-static name_counter that the Create functions append to the name   *)
(* they give the kernel object.  osapi.c and ostimer.c each have their own *)
(* name_counter; a behaviour exercises one kind and so one of them.        *)
(***************************************************************************)

MAX_API_NAME_INCOMING == 20
OS_QUEUE_MAX_DEPTH    == 50
MAX_SEM_VALUE         == 2147483647

OS_INVALID_POINTER        == "OS_INVALID_POINTER"
OS_ERR_NAME_TOO_LONG      == "OS_ERR_NAME_TOO_LONG"
OS_ERR_INVALID_PRIORITY   == "OS_ERR_INVALID_PRIORITY"
OS_QUEUE_INVALID_SIZE     == "OS_QUEUE_INVALID_SIZE"
OS_INVALID_SEM_VALUE      == "OS_INVALID_SEM_VALUE"
OS_TIMER_ERR_INVALID_ARGS == "OS_TIMER_ERR_INVALID_ARGS"

\* strlen of the name argument: below, at and above the limit
NameLengths == {MAX_API_NAME_INCOMING - 1, MAX_API_NAME_INCOMING,
                MAX_API_NAME_INCOMING + 1}

\* the priority argument of OS_TaskCreate (0 is the highest, 255 the lowest)
Priorities == {0, 255, 256}

\* configMAX_PRIORITIES of the build (FreeRTOSConfig.h)
ConfigMaxPriorities == {8, 16}

\* the queue_depth argument of OS_QueueCreate
Depths == {1, OS_QUEUE_MAX_DEPTH + 1}

\* the sem_initial_value argument of OS_CountSemCreate; -1 is 0xFFFFFFFF
SemValues == {0, -1}

\* the arguments of a Create of kind k; ptr is FALSE when one of the
\* pointers the function tests first is NULL, callback is FALSE when
\* callback_ptr is NULL
CreateArgs(k) ==
  {a \in [ptr : BOOLEAN, name : Names, len : NameLengths, priority : Priorities,
          depth : Depths, value : SemValues, callback : BOOLEAN] :
     /\ k # "task"     => a.priority = 0
     /\ k # "queue"    => a.depth = 1
     /\ k # "countsem" => a.value = 0
     /\ k # "timer"    => a.callback}

\* the name-length test: strlen(name) >= MAX_API_NAME_INCOMING in osapi.c,
\* strlen(name) > MAX_API_NAME_INCOMING in ostimer.c
NameTooLong(k, len) ==
  IF k = "timer" THEN len > MAX_API_NAME_INCOMING ELSE len >= MAX_API_NAME_INCOMING

\* priority = (255 - priority) / (256/configMAX_PRIORITIES) in uint32, then
\* priority >= OSAPI_MAX_PRIORITY.  Above 255 the subtraction wraps to a
\* value of at least 2^32 - 2^31, whose quotient exceeds every maximum.
BadPriority(priority, maxPriorities) ==
  IF priority > 255 THEN TRUE
  ELSE ((255 - priority) \div (256 \div maxPriorities)) >= maxPriorities

\* the tests a Create makes before it takes the table mutex, in their order:
\* the code it returns ("valid" if it goes on) and whether name_counter++ ran
CreateValidation(k, a, maxPriorities) ==
  IF ~a.ptr
  THEN [code |-> OS_INVALID_POINTER, counted |-> FALSE]
  ELSE IF k = "countsem" /\ ~U32GreaterEq(MAX_SEM_VALUE, a.value)
  THEN [code |-> OS_INVALID_SEM_VALUE, counted |-> FALSE]
  ELSE IF NameTooLong(k, a.len)
  THEN [code |-> OS_ERR_NAME_TOO_LONG, counted |-> TRUE]
  ELSE IF k = "task" /\ BadPriority(a.priority, maxPriorities)
  THEN [code |-> OS_ERR_INVALID_PRIORITY, counted |-> TRUE]
  ELSE IF k = "queue" /\ a.depth > OS_QUEUE_MAX_DEPTH
  THEN [code |-> OS_QUEUE_INVALID_SIZE, counted |-> TRUE]
  ELSE [code |-> "valid", counted |-> TRUE]

\* the slot of a Create whose kernel constructor succeeded with host id x
CreatedSlot(slot, n, x) ==
  [slot EXCEPT !.free = FALSE, !.original_name = n, !.id = x]

\* the slot of a Create whose kernel constructor failed
FailedSlot(k, slot, n) ==
  CASE k = "task"  -> slot
    [] k = "timer" -> [slot EXCEPT !.original_name = n, !.id = UNINITIALIZED]
    [] OTHER       -> [slot EXCEPT !.id = UNINITIALIZED]

(***************************************************************************)
(* OS_TaskCreate 812-910, OS_QueueCreate 1231-1319, OS_BinSemCreate        *)
(* 1600-1689, OS_CountSemCreate 1945-2035, OS_MutSemCreate 2297-2375,      *)
(* OS_TimerCreate 161-256, run by one caller without interruption.         *)
(***************************************************************************)
Args_Create(a, maxPriorities) ==
  /\ acall = NoArgCall
  /\ calls < MaxCalls
  /\ calls' = calls + 1
  /\ LET v        == CreateValidation(kind, a, maxPriorities)
         possible == FirstFree(tbl)
     IN /\ name_counter' = IF v.counted THEN (name_counter + 1) % 256 ELSE name_counter
        /\ IF v.code # "valid"
           THEN /\ acall' = [op |-> "create", code |-> v.code]
                /\ UNCHANGED <<tbl, count, kobj>>
           ELSE IF \/ HasCount(kind) /\ U32GreaterEq(count, Capacity(kind))
                   \/ possible >= TableSize(kind)
           THEN /\ acall' = [op |-> "create", code |-> OS_ERR_NO_FREE_IDS]
                /\ UNCHANGED <<tbl, count, kobj>>
           ELSE IF NameTaken(tbl, a.name)
           THEN /\ acall' = [op |-> "create", code |-> OS_ERR_NAME_TAKEN]
                /\ UNCHANGED <<tbl, count, kobj>>
           ELSE IF kind = "timer" /\ ~a.callback
           THEN /\ acall' = [op |-> "create", code |-> OS_TIMER_ERR_INVALID_ARGS]
                /\ UNCHANGED <<tbl, count, kobj>>
           ELSE \/ /\ ~HeapFull
                   /\ tbl'   = [tbl EXCEPT ![possible] = CreatedSlot(@, a.name, NewHostId)]
                   /\ kobj'  = kobj \cup {NewHostId}
                   /\ count' = IF HasCount(kind) THEN count + 1 ELSE count
                   /\ acall' = [op |-> "create", code |-> OS_SUCCESS]
                \/ /\ tbl'   = [tbl EXCEPT ![possible] = FailedSlot(kind, @, a.name)]
                   /\ acall' = [op |-> "create", code |-> ConstructFailCode(kind)]
                   /\ UNCHANGED <<count, kobj>>
  /\ UNCHANGED <<kind, pc, loc, last, gone>>
  /\ UNCHANGED <<lockVars, handleVars, selVars, readVars, tickVars, stubVars, semVars, timerVars, pathVars, nameVars>>

(***************************************************************************)
(* OS_TaskDelete 922-961, OS_QueueDelete 1333-1367, OS_BinSemDelete        *)
(* 1702-1726, OS_CountSemDelete 2048-2074, OS_MutSemDelete 2388-2409,      *)
(* OS_TimerDelete 379-402, run by one caller without interruption.         *)
(***************************************************************************)
Args_Delete(h) ==
  /\ acall = NoArgCall
  /\ calls < MaxCalls
  /\ calls' = calls + 1
  /\ IF (IF kind = "timer" THEN UseRejects(tbl, h) ELSE DeleteRejects(tbl, h))
     THEN /\ acall' = [op |-> "delete", code |-> OS_ERR_INVALID_ID]
          /\ UNCHANGED <<tbl, count, kobj>>
     ELSE /\ kobj'  = kobj \ {tbl[h].id}
          /\ tbl'   = IF kind = "timer"
                      THEN [tbl EXCEPT ![h].free = TRUE]
                      ELSE IF HasDeleted(kind)
                      THEN [tbl EXCEPT ![h].free = FALSE, ![h].deleted = TRUE,
                                       ![h].id = DeletedHostId]
                      ELSE [tbl EXCEPT ![h].free = TRUE, ![h].id = UNINITIALIZED]
          /\ count' = IF HasCount(kind) THEN count - 1 ELSE count
          /\ acall' = [op |-> "delete", code |-> OS_SUCCESS]
  /\ UNCHANGED <<kind, pc, loc, last, gone, name_counter>>
  /\ UNCHANGED <<lockVars, handleVars, selVars, readVars, tickVars, stubVars, semVars, timerVars, pathVars, nameVars>>

(***************************************************************************)
(* OS_TaskGetIdByName 1115-1138 and the GetIdByName of the other kinds     *)
(* (OS_TimerGetIdByName 452-481): pointer test, name-length test, scan.    *)
(***************************************************************************)
Args_GetIdByName(ptr, n, len) ==
  /\ acall = NoArgCall
  /\ calls < MaxCalls
  /\ calls' = calls + 1
  /\ acall' = [op   |-> "getid",
               code |-> IF ~ptr THEN OS_INVALID_POINTER
                        ELSE IF NameTooLong(kind, len) THEN OS_ERR_NAME_TOO_LONG
                        ELSE IF FindByName(tbl, n) = -1 THEN OS_ERR_NAME_NOT_FOUND
                        ELSE OS_SUCCESS]
  /\ UNCHANGED <<kind, tbl, count, kobj, pc, loc, last, gone, name_counter>>
  /\ UNCHANGED <<lockVars, handleVars, selVars, readVars, tickVars, stubVars, semVars, timerVars, pathVars, nameVars>>

\* the caller has looked at the code the call returned
Args_Return ==
  /\ acall # NoArgCall
  /\ acall' = NoArgCall
  /\ UNCHANGED <<tableVars, name_counter, stubVars, semVars, timerVars, pathVars, nameVars>>
  /\ UNCHANGED <<lockVars, handleVars, selVars, readVars, tickVars, stubVars, semVars, timerVars, pathVars, nameVars>>

ArgsInit ==
  /\ kind \in Kinds
  /\ tbl = [i \in 0 .. (TableSize(kind) - 1) |-> InitSlot]
  /\ count = 0
  /\ kobj = {}
  /\ pc = [t \in Procs |-> "idle"]
  /\ loc = [t \in Procs |-> NoLoc]
  /\ last = NoLast
  /\ calls = 0
  /\ gone = {}
  /\ LocksIdle /\ HandlesIdle /\ SelectIdle /\ ReadsIdle /\ TicksIdle
  /\ ArgsIdle /\ StubsIdle /\ BinSemIdle /\ TimersIdle /\ PathsIdle /\ NamesIdle

ArgsNext ==
  \/ \E a \in CreateArgs(kind), m \in ConfigMaxPriorities : Args_Create(a, m)
  \/ \E h \in 0 .. TableSize(kind) : Args_Delete(h)
  \/ \E ptr \in BOOLEAN, n \in Names, len \in NameLengths : Args_GetIdByName(ptr, n, len)
  \/ Args_Return

SpecArgs == ArgsInit /\ [][ArgsNext]_vars

(***************************************************************************)
(*                     Unsupported entry points                            *)
(*                                                                         *)
(* The entry points of the capabilities this port does not provide.  None  *)
(* of them reads or writes anything: each is a single return statement.    *)
(* The interrupt state and the FPU exception mask of the host are the      *)
(* state the interrupt and FPU calls would change if they were carried     *)
(* out.                                                                    *)
(***************************************************************************)

OS_ERR_NOT_IMPLEMENTED == "OS_ERR_NOT_IMPLEMENTED"
OS_FS_UNIMPLEMENTED    == "OS_FS_UNIMPLEMENTED"

Unsupported ==
  {"OS_TimeBaseCreate", "OS_TimeBaseSet", "OS_TimeBaseDelete",
   "OS_TimeBaseGetIdByName", "OS_TimerAdd", "OS_BinSemFlush",
   "OS_IntAttachHandler", "OS_IntUnlock", "OS_IntLock", "OS_IntEnable",
   "OS_IntDisable", "OS_FPUExcSetMask", "OS_FPUExcGetMask", "OS_HeapGetInfo",
   "OS_chmod", "OS_ShellOutputToFile", "OS_chkfs"}

\* the value of the integer argument of a call (id, level, mask, access)
StubArgs == 0 .. MaxObj

\* the return statement of each entry point
UnsupportedReturn(f) ==
  CASE f = "OS_TimeBaseCreate"      -> OS_ERR_NOT_IMPLEMENTED  \* ostimer.c:533
    [] f = "OS_TimeBaseSet"         -> OS_ERR_NOT_IMPLEMENTED  \* ostimer.c:538
    [] f = "OS_TimeBaseDelete"      -> OS_ERR_NOT_IMPLEMENTED  \* ostimer.c:543
    [] f = "OS_TimeBaseGetIdByName" -> OS_ERR_NOT_IMPLEMENTED  \* ostimer.c:548
    [] f = "OS_TimerAdd"            -> OS_ERR_NOT_IMPLEMENTED  \* ostimer.c:554
    [] f = "OS_BinSemFlush"         -> OS_ERR_NOT_IMPLEMENTED  \* part_003:1770
    [] f = "OS_IntAttachHandler"    -> OS_ERR_NOT_IMPLEMENTED  \* part_003:2643
    [] f = "OS_IntUnlock"           -> OS_SUCCESS              \* part_003:2656
    [] f = "OS_IntLock"             -> OS_SUCCESS              \* part_003:2671
    [] f = "OS_IntEnable"           -> OS_SUCCESS              \* part_003:2685
    [] f = "OS_IntDisable"          -> OS_SUCCESS              \* part_003:2700
    [] f = "OS_HeapGetInfo"         -> OS_ERR_NOT_IMPLEMENTED  \* part_003:2713
    [] f = "OS_FPUExcSetMask"       -> OS_SUCCESS              \* part_003:2889
    [] f = "OS_FPUExcGetMask"       -> OS_SUCCESS              \* part_003:2905
    [] f = "OS_chmod"               -> OS_FS_UNIMPLEMENTED     \* osfileapi.c:632
    [] f = "OS_ShellOutputToFile"   -> OS_ERR_NOT_IMPLEMENTED  \* osfileapi.c:1739
    [] f = "OS_chkfs"               -> OS_FS_UNIMPLEMENTED     \* ostimerex.h:547

\* what the host state would be after the call had it been carried out
Performed(f, arg, enabled, mask) ==
  CASE f \in {"OS_IntLock", "OS_IntDisable"}  -> [intEnabled |-> FALSE, fpuMask |-> mask]
    [] f \in {"OS_IntUnlock", "OS_IntEnable"} -> [intEnabled |-> TRUE, fpuMask |-> mask]
    [] f = "OS_FPUExcSetMask"                 -> [intEnabled |-> enabled, fpuMask |-> arg]
    [] OTHER                                  -> [intEnabled |-> enabled, fpuMask |-> mask]

(***************************************************************************)
(* A call of one of the entry points: the body is the return statement.    *)
(***************************************************************************)
Unsupported_Call(f, arg) ==
  /\ scall = NoStubCall
  /\ scall' = [fn |-> f, arg |-> arg, code |-> UnsupportedReturn(f)]
  /\ UNCHANGED <<intEnabled, fpuMask>>
  /\ UNCHANGED <<tableVars, lockVars, handleVars, selVars, readVars, tickVars, argVars, semVars, timerVars, pathVars, nameVars>>

\* the caller has looked at the code the call returned
Unsupported_Return ==
  /\ scall # NoStubCall
  /\ scall' = NoStubCall
  /\ UNCHANGED <<intEnabled, fpuMask>>
  /\ UNCHANGED <<tableVars, lockVars, handleVars, selVars, readVars, tickVars, argVars, semVars, timerVars, pathVars, nameVars>>

\* the host state when the application starts calling
StubInit ==
  /\ TablesIdle /\ LocksIdle /\ HandlesIdle /\ SelectIdle /\ ReadsIdle /\ TicksIdle
  /\ ArgsIdle /\ BinSemIdle /\ TimersIdle /\ PathsIdle /\ NamesIdle
  /\ intEnabled \in BOOLEAN
  /\ fpuMask \in StubArgs
  /\ scall = NoStubCall

StubNext ==
  \/ \E f \in Unsupported, arg \in StubArgs : Unsupported_Call(f, arg)
  \/ Unsupported_Return

SpecStubs == StubInit /\ [][StubNext]_vars

(***************************************************************************)
(*                         Binary semaphore                                *)
(*                                                                         *)
(* One binary semaphore and the tasks that give and take it.  The kernel   *)
(* semaphore is a queue of length one: xSemaphoreGive puts the token in if *)
(* the queue is empty and makes one task that waits for it ready;          *)
(* xSemaphoreTake removes the token if there is one and otherwise blocks;  *)
(* a task made ready takes the token when it runs, if it is still there.   *)
(***************************************************************************)

\* the sem_initial_value argument of OS_BinSemCreate
InitialValues == {0, 1, 2}

\* xSemaphoreTake finds a token in the queue (uxMessagesWaiting > 0), with a
\* variant in which it finds one always
TokenAvailable_Always(v) == TRUE

TokenAvailable(v) == v > 0

\* the tasks blocked in xSemaphoreTake
Waiters == {t \in SemTasks : bpc[t] = "waiting"}

BinSemCall(op, t, code) == [op |-> op, t |-> t, code |-> code]

(***************************************************************************)
(* OS_BinSemCreate 1652-1689 of a caller that passed the argument and name *)
(* checks: the initial value is cut to 1, xSemaphoreCreateBinary makes an  *)
(* empty semaphore (or fails), and the semaphore is given initial-value    *)
(* times.                                                                  *)
(***************************************************************************)
OS_BinSemCreate(t, sem_initial_value) ==
  /\ binit = NotCreated
  /\ bpc[t] = "idle"
  /\ \/ /\ binit' = sem_initial_value
        /\ bval'  = IF sem_initial_value > 1 THEN 1 ELSE sem_initial_value
        /\ bcall' = BinSemCall("create", t, OS_SUCCESS)
     \/ /\ bcall' = BinSemCall("create", t, OS_SEM_FAILURE)
        /\ UNCHANGED <<binit, bval>>
  /\ served' = FALSE
  /\ UNCHANGED bpc
  /\ UNCHANGED <<tableVars, lockVars, handleVars, selVars, readVars, tickVars, argVars, stubVars, timerVars, pathVars, nameVars>>

(***************************************************************************)
(* OS_BinSemGive 1745-1753.  The result of xSemaphoreGive is not looked    *)
(* at: a give on a semaphore that holds its token changes nothing and      *)
(* returns OS_SUCCESS as well.                                             *)
(***************************************************************************)
BinSem_Give(t) ==
  /\ bpc[t] = "idle"
  /\ IF binit = NotCreated
     THEN /\ bcall' = BinSemCall("give", t, OS_ERR_INVALID_ID)
          /\ UNCHANGED <<bval, bpc>>
     ELSE /\ bcall' = BinSemCall("give", t, OS_SUCCESS)
          /\ IF TokenAvailable(bval)
             THEN UNCHANGED <<bval, bpc>>
             ELSE /\ bval' = 1
                  /\ IF Waiters = {}
                     THEN UNCHANGED bpc
                     ELSE \E w \in Waiters : bpc' = [bpc EXCEPT ![w] = "ready"]
  /\ served' = FALSE
  /\ UNCHANGED binit
  /\ UNCHANGED <<tableVars, lockVars, handleVars, selVars, readVars, tickVars, argVars, stubVars, timerVars, pathVars, nameVars>>

(***************************************************************************)
(* OS_BinSemTake 1789-1804 up to the point where xSemaphoreTake returns or *)
(* blocks (portMAX_DELAY).                                                 *)
(***************************************************************************)
BinSem_Take(t) ==
  /\ bpc[t] = "idle"
  /\ IF binit = NotCreated
     THEN /\ bcall' = BinSemCall("take", t, OS_ERR_INVALID_ID)
          /\ UNCHANGED <<bval, bpc>>
     ELSE IF TokenAvailable(bval)
     THEN /\ bval'  = bval - 1
          /\ bcall' = BinSemCall("take", t, OS_SUCCESS)
          /\ UNCHANGED bpc
     ELSE /\ bpc'   = [bpc EXCEPT ![t] = "waiting"]
          /\ bcall' = BinSemCall("take", t, "blocked")
          /\ UNCHANGED bval
  /\ served' = FALSE
  /\ UNCHANGED binit
  /\ UNCHANGED <<tableVars, lockVars, handleVars, selVars, readVars, tickVars, argVars, stubVars, timerVars, pathVars, nameVars>>

(***************************************************************************)
(* A task that a give made ready runs again inside xSemaphoreTake: it      *)
(* takes the token and OS_BinSemTake returns OS_SUCCESS (1798-1800), or    *)
(* the token is gone and it blocks again.                                  *)
(***************************************************************************)
BinSem_Resume(t) ==
  /\ bpc[t] = "ready"
  /\ IF TokenAvailable(bval)
     THEN /\ bval'   = bval - 1
          /\ bpc'    = [bpc EXCEPT ![t] = "idle"]
          /\ bcall'  = BinSemCall("resume", t, OS_SUCCESS)
          /\ served' = TRUE
     ELSE /\ bpc'    = [bpc EXCEPT ![t] = "waiting"]
          /\ bcall'  = BinSemCall("resume", t, "blocked")
          /\ served' = FALSE
          /\ UNCHANGED bval
  /\ UNCHANGED binit
  /\ UNCHANGED <<tableVars, lockVars, handleVars, selVars, readVars, tickVars, argVars, stubVars, timerVars, pathVars, nameVars>>

BinSemInit ==
  /\ TablesIdle /\ LocksIdle /\ HandlesIdle /\ SelectIdle /\ ReadsIdle /\ TicksIdle
  /\ ArgsIdle /\ StubsIdle
  /\ BinSemIdle /\ TimersIdle /\ PathsIdle /\ NamesIdle

BinSemNext ==
  \/ \E t \in SemTasks, v \in InitialValues : OS_BinSemCreate(t, v)
  \/ \E t \in SemTasks : BinSem_Give(t)
  \/ \E t \in SemTasks : BinSem_Take(t)
  \/ \E t \in SemTasks : BinSem_Resume(t)

SpecBinSem == BinSemInit /\ [][BinSemNext]_vars

(***************************************************************************)
(*                           Timer expiry                                  *)
(*                                                                         *)
(* One slot of OS_timer_table and its host timer.  The host timer is a     *)
(* one-shot FreeRTOS software timer (xTimerCreate with pdFALSE): when      *)
(* armed it expires once, period ticks after it was armed, and the timer   *)
(* service task then calls OS_TimerShim.  xTimerChangePeriod arms the      *)
(* timer with the new period; it and xTimerStart report whether the        *)
(* command reached the timer service task.                                 *)
(***************************************************************************)

OS_TIMER_ERR_INTERNAL == "OS_TIMER_ERR_INTERNAL"

\* the start_time and interval_time arguments of OS_TimerSet, microseconds
TimerTimes == {0, 500, 1000, 1500}

\* what the two host calls of an arming can report
HostOutcomes == {"pass", "failChangePeriod", "failStart"}

\* os_clock_accuracy as OS_TimerAPIInit computes it
os_clock_accuracy(rate) == OS_TicksToUsecs(1, rate)

\* "Round up the accuracy of the start time and interval times"
RoundToAccuracy(time, rate) ==
  IF time > 0 /\ time < os_clock_accuracy(rate) THEN os_clock_accuracy(rate) ELSE time

TimerEvent(op, code, waited, due) ==
  [op |-> op, code |-> code, waited |-> waited, due |-> due]

(***************************************************************************)
(* OS_TimerCreate 161-256 of a caller whose arguments pass the checks: the *)
(* slot is taken, start_time = 0 and interval_time = 1 are stored and the  *)
(* host timer is created, not armed; if xTimerCreate fails the slot is     *)
(* free again.                                                             *)
(***************************************************************************)
OS_TimerCreate ==
  /\ tmr.free /\ ~tmr.host
  /\ \/ /\ tmr' = [tmr EXCEPT !.free = FALSE, !.start_time = 0, !.interval_time = 1,
                              !.host = TRUE, !.armed = FALSE]
        /\ tev' = TimerEvent("create", OS_SUCCESS, 0, 0)
     \/ /\ tmr' = [tmr EXCEPT !.start_time = 0, !.interval_time = 1]
        /\ tev' = TimerEvent("create", OS_TIMER_ERR_UNAVAILABLE, 0, 0)
  /\ UNCHANGED <<tableVars, lockVars, handleVars, selVars, readVars, tickVars, argVars, stubVars, semVars, pathVars, nameVars>>

(***************************************************************************)
(* OS_TimerSet 314-366.                                                    *)
(***************************************************************************)
OS_TimerSet(start_time, interval_time, host) ==
  /\ IF tmr.free
     THEN /\ tev' = TimerEvent("set", OS_ERR_INVALID_ID, 0, 0)
          /\ UNCHANGED tmr
     ELSE LET start    == RoundToAccuracy(start_time, tickRate)
              interval == RoundToAccuracy(interval_time, tickRate)
              timeout  == OS_UsecsToTicks(start, tickRate)
              saved    == [tmr EXCEPT !.start_time = start, !.interval_time = interval]
          IN IF start > 0
             THEN IF host = "failChangePeriod"
                  THEN /\ tmr' = saved
                       /\ tev' = TimerEvent("set", OS_TIMER_ERR_INTERNAL, 0, 0)
                  ELSE /\ tmr' = [saved EXCEPT !.armed = TRUE, !.period = timeout,
                                               !.due = start_time]
                       /\ tev' = TimerEvent("set",
                                            IF host = "failStart" THEN OS_TIMER_ERR_INTERNAL
                                            ELSE OS_SUCCESS, 0, 0)
             ELSE /\ tmr' = saved
                  /\ tev' = TimerEvent("set", OS_SUCCESS, 0, 0)
  /\ UNCHANGED <<tableVars, lockVars, handleVars, selVars, readVars, tickVars, argVars, stubVars, semVars, pathVars, nameVars>>

(***************************************************************************)
(* The host timer expires, period ticks after it was armed, and the timer  *)
(* service task runs OS_TimerShim 270-301: look the slot up by the host    *)
(* id (OS_TimerGetIdByHostId 416-437 skips free slots), call the callback  *)
(* and re-arm with the interval if it is not zero.                         *)
(***************************************************************************)
OS_TimerShim(host) ==
  /\ tmr.host /\ tmr.armed
  /\ LET waited  == OS_TicksToUsecs(tmr.period, tickRate)
         timeout == OS_UsecsToTicks(tmr.interval_time, tickRate)
         expired == [tmr EXCEPT !.armed = FALSE]
     IN IF tmr.free
        THEN /\ tmr' = expired
             /\ tev' = TimerEvent("expire", "no callback", waited, tmr.due)
        ELSE /\ tev' = TimerEvent("expire", "callback", waited, tmr.due)
             /\ tmr' = IF tmr.interval_time > 0 /\ host # "failChangePeriod"
                       THEN [expired EXCEPT !.armed = TRUE, !.period = timeout,
                                            !.due = tmr.interval_time]
                       ELSE expired
  /\ UNCHANGED <<tableVars, lockVars, handleVars, selVars, readVars, tickVars, argVars, stubVars, semVars, pathVars, nameVars>>

(***************************************************************************)
(* OS_TimerDelete 379-402: the validity check and free = TRUE (385-391),   *)
(* then, in a second step, xTimerDelete (396-401).                         *)
(***************************************************************************)
Timer_Delete_Free ==
  /\ IF tmr.free
     THEN /\ tev' = TimerEvent("delete", OS_ERR_INVALID_ID, 0, 0)
          /\ UNCHANGED tmr
     ELSE /\ tmr' = [tmr EXCEPT !.free = TRUE]
          /\ tev' = TimerEvent("delete", "freed", 0, 0)
  /\ UNCHANGED <<tableVars, lockVars, handleVars, selVars, readVars, tickVars, argVars, stubVars, semVars, pathVars, nameVars>>

Timer_Delete_Host ==
  /\ tmr.free /\ tmr.host
  /\ tmr' = [tmr EXCEPT !.host = FALSE, !.armed = FALSE]
  /\ tev' = TimerEvent("delete", OS_SUCCESS, 0, 0)
  /\ UNCHANGED <<tableVars, lockVars, handleVars, selVars, readVars, tickVars, argVars, stubVars, semVars, pathVars, nameVars>>

TimerInit ==
  /\ TablesIdle /\ LocksIdle /\ HandlesIdle /\ SelectIdle /\ ReadsIdle
  /\ ArgsIdle /\ StubsIdle /\ BinSemIdle /\ PathsIdle /\ NamesIdle
  /\ tickRate \in TickRates
  /\ tcall = NoTicks
  /\ tmr = FreeTimer
  /\ tev = NoTimerEvent

TimerNext ==
  \/ OS_TimerCreate
  \/ \E s \in TimerTimes, i \in TimerTimes, host \in HostOutcomes : OS_TimerSet(s, i, host)
  \/ \E host \in HostOutcomes : OS_TimerShim(host)
  \/ Timer_Delete_Free
  \/ Timer_Delete_Host

SpecTimer == TimerInit /\ [][TimerNext]_vars

(***************************************************************************)
(*                              Claims                                     *)
(***************************************************************************)

\* caller t returns from a Create call in this step
CreateReturns(t) == pc[t] \in CreateStages /\ pc'[t] = "idle"

\* caller t returns OS_SUCCESS from a Create call in this step
CreateSucceeds(t) == CreateReturns(t) /\ last'.code = OS_SUCCESS

\* C1: in every reachable state no two live slots (neither free nor deleted,
\* and not held by a Create that has not returned) of the table hold the
\* same original_name, whatever the interleaving of Create and Delete calls.
C1_UniqueLiveNames ==
  \A i \in Slots, j \in Slots :
    (i # j /\ LiveSlot(i) /\ LiveSlot(j)) => tbl[i].original_name # tbl[j].original_name

\* C2: an operation that takes a handle (a handle operation or Delete)
\* accepts the handle if and only if its slot is neither free nor deleted;
\* in particular it rejects a handle whose Delete has returned success.
C2_HandleAcceptedIffValid ==
  [][\A t \in Procs, h \in 0 .. TableSize(kind) :
       (Handle_Use(t, h) \/ Delete_Check(t, h) \/ OS_TimerDelete_Check(t, h))
         => ((pc'[t] = "idle" /\ last'.code = OS_ERR_INVALID_ID) <=> ~HandleValid(h))]_vars

\* C3: a Create with a name that no live object uses and no other Create in
\* progress is about to give to its object, issued while a free slot exists
\* and the kind is below capacity, is not rejected, and when a Create
\* returns success with handle h a GetIdByName with the same name in the
\* state it returns in yields exactly h.
C3_CreateThenGetByName ==
  [][\A t \in Procs :
       /\ \A n \in Names :
            (/\ Create_Reserve(t, n)
             /\ ~NameInUse(n) /\ ~NameBeingCreated(n)
             /\ \E i \in Slots : tbl[i].free
             /\ ~(HasCount(kind) /\ U32GreaterEq(count, Capacity(kind))))
            => pc'[t] = "reserved"
       /\ CreateSucceeds(t) => FindByName(tbl', loc[t].name) = last'.h]_vars

\* C4 as stated: a Create whose name a live object already uses returns
\* OS_ERR_NAME_TAKEN and changes no slot.
C4_Original ==
  [][\A t \in Procs, n \in Names :
       (Create_Reserve(t, n) /\ NameInUse(n))
         => (pc'[t] = "idle" /\ last'.code = OS_ERR_NAME_TAKEN /\ tbl' = tbl)]_vars

\* C4 amended: a Create whose name a live object already uses is rejected,
\* with OS_ERR_NAME_TAKEN or, when the kind is at capacity or has no free
\* slot (tested first), with OS_ERR_NO_FREE_IDS; it changes no slot and no
\* active-object counter.
C4_DuplicateRejected ==
  [][\A t \in Procs, n \in Names :
       (Create_Reserve(t, n) /\ NameInUse(n))
         => /\ pc'[t] = "idle"
            /\ last'.code \in {OS_ERR_NAME_TAKEN, OS_ERR_NO_FREE_IDS}
            /\ (last'.code = OS_ERR_NO_FREE_IDS
                  => \/ HasCount(kind) /\ U32GreaterEq(count, Capacity(kind))
                     \/ \A i \in Slots : ~tbl[i].free)
            /\ tbl' = tbl
            /\ count' = count]_vars

\* a Create has just been rejected as a duplicate while a live object holds a name
C4_Witness ==
  /\ last.op = "create" /\ last.code = OS_ERR_NAME_TAKEN
  /\ \E n \in Names : NameInUse(n)
  /\ \E i \in Slots : tbl[i].free

\* C5: when the kernel constructor fails, Create returns a failure code and
\* leaves the reserved slot exactly as it was before the call (free again,
\* same contents), the counter unchanged and the name not findable there.
C5_ConstructorFailureRollsBack ==
  [][\A t \in Procs :
       (CreateReturns(t) /\ last'.code # OS_SUCCESS)
         => /\ tbl'[loc[t].slot] = loc[t].snap
            /\ count' = count
            /\ FindByName(tbl', loc[t].name) # loc[t].slot]_vars

\* C6: while a Create holds a reserved slot that it has not populated yet,
\* no GetIdByName, for any name, returns that slot's index.
C6_ReservedSlotNotFound ==
  \A t \in Procs :
    (pc[t] \in {"reserved", "constructed", "rollback"})
      => \A n \in Names : FindByName(tbl, n) # loc[t].slot

\* C7: two Create calls that are in progress at the same time never hold the
\* same reserved slot.
C7_ReservationExclusive ==
  \A t \in Procs, u \in Procs :
    (t # u /\ pc[t] \in CreateStages /\ pc[u] \in CreateStages)
      => loc[t].slot # loc[u].slot

\* C8: the number of live objects of the kind never exceeds its configured
\* maximum.
C8_AtMostMaxLive ==
  Cardinality({i \in Slots : LiveSlot(i)}) <= Capacity(kind)

\* C9: no Create returns, as the handle of the new object, the index of a
\* slot that is marked deleted.
C9_TombstoneNeverReused ==
  [][\A t \in Procs : CreateSucceeds(t) => ~tbl[last'.h].deleted]_vars

\* C10: a name whose object was deleted with success is not found by
\* GetIdByName until a Create with that name has returned success.
C10_DeletedNameNotFound ==
  \A n \in gone : FindByName(tbl, n) = -1

\* the table mutexes task t holds
HeldBy(t) == {l \in Locks : holder[l] = t}

\* C11: no task ever holds two table mutexes, and a task that is about to
\* take a table mutex holds none; this includes the creator lookup into the
\* task table made inside another table's populate section.
C11_NoTwoTableLocks ==
  \A t \in Procs :
    /\ Cardinality(HeldBy(t)) <= 1
    /\ lpc[t].at = "want" => HeldBy(t) = {}

\* a task has just looked up its creator inside the mutex table's populate
\* section while another task holds the task table's mutex
C11_Witness ==
  \E t \in Procs, u \in Procs :
    /\ t # u
    /\ lpc[t].k = "mutex" /\ lpc[t].at = "in" /\ lpc[t].creator = "done"
    /\ holder["mutex"] = t
    /\ holder["task"] = u

\* C12: a call given a handle that is out of range for its table (the error
\* value of a failed current-task lookup included) is rejected and reads or
\* writes nothing at that index.
C12_OutOfRangeRejected ==
  (hcall.op # "none" /\ ~(hcall.h \in 0 .. (HSize(hk) - 1)))
    => /\ hcall.code \in {OS_ERR_INVALID_ID, OS_FS_ERR_INVALID_FD}
       /\ hacc = {}

\* C13: in the multi-stream wait the bitmaps are not cross-written: a bit of
\* the read bitmap whose stream the read wait confirmed is not cleared by
\* the outcome of the write wait, and a bit of the write bitmap whose stream
\* the write wait confirmed is not cleared by the outcome of the read wait.
C13_NoCrossWrite ==
  (sel.op = "multi" /\ sel.code # "FAULT")
    => /\ \A i \in sel.rdIn :
            (sel.rdSt = OS_SUCCESS /\ i \in sel.confR) => i \in sel.rdOut
       /\ \A i \in sel.wrIn :
            (sel.wrSt = OS_SUCCESS /\ i \in sel.confW) => i \in sel.wrOut

\* C14: after a multi-stream wait a bit is still set in a bitmap only if it
\* was set on entry and the matching direction of its stream was confirmed
\* ready: read for the read bitmap, write for the write bitmap.
C14_OnlyConfirmedBitsRemain ==
  (sel.op = "multi" /\ sel.code # "FAULT")
    => /\ \A i \in sel.rdOut :
            i \in sel.rdIn /\ sel.rdSt = OS_SUCCESS /\ i \in sel.confR
       /\ \A i \in sel.wrOut :
            i \in sel.wrIn /\ sel.wrSt = OS_SUCCESS /\ i \in sel.confW

\* C15: a multi-stream wait given an empty read bitmap and an empty write
\* bitmap returns OS_SUCCESS, whatever the timeout.
C15_EmptySetsSucceed ==
  (sel.op = "multi" /\ ~sel.rdNull /\ ~sel.wrNull /\ sel.rdIn = {} /\ sel.wrIn = {})
    => sel.code = OS_SUCCESS

\* C16: a single-stream wait whose host wait timed out on a stream whose
\* disconnected flag is set after the probe returns OS_SUCCESS with the
\* flag word the caller passed in.
C16_DisconnectOverridesTimeout ==
  (sel.op = "single" /\ sel.st = OS_ERROR_TIMEOUT /\ strm[sel.id].disconnected)
    => /\ sel.code = OS_SUCCESS
       /\ sel.flagsOut = sel.flagsIn

C16_Witness ==
  /\ sel.op = "single"
  /\ sel.st = OS_ERROR_TIMEOUT
  /\ strm[sel.id].disconnected
  /\ sel.flagsIn = {OS_STREAM_STATE_READABLE, OS_STREAM_STATE_WRITABLE}
  /\ sel.code = OS_SUCCESS

\* C17: once a stream's disconnected flag is set it stays set until the
\* stream is closed, and every single-stream wait on the stream in between
\* returns OS_SUCCESS.
C17_DisconnectedLatch ==
  [][\A i \in Streams :
       (strm[i].disconnected /\ ~(sel'.op = "close" /\ sel'.id = i))
         => /\ strm'[i].disconnected
            /\ (sel'.op = "single" /\ sel'.id = i) => sel'.code = OS_SUCCESS]_vars

\* C18: a single-stream wait that returns OS_ERROR_TIMEOUT or OS_ERROR
\* leaves the caller's flag word zero.
C18_FailureClearsFlags ==
  (sel.op = "single" /\ sel.code \in {OS_ERROR_TIMEOUT, OS_ERROR})
    => sel.flagsOut = {}

C18_Witness ==
  /\ sel.op = "single"
  /\ sel.code = OS_ERROR_TIMEOUT
  /\ sel.flagsIn = {OS_STREAM_STATE_READABLE, OS_STREAM_STATE_WRITABLE}
  /\ sel.flagsOut = {}

\* C19: after a successful single-stream wait every readiness flag that is
\* set was requested by the caller and confirmed by the host wait for that
\* direction.
C19_OnlyRequestedAndConfirmed ==
  (sel.op = "single" /\ sel.code = OS_SUCCESS)
    => /\ OS_STREAM_STATE_READABLE \in sel.flagsOut
            => (OS_STREAM_STATE_READABLE \in sel.flagsIn /\ sel.id \in sel.confR)
       /\ OS_STREAM_STATE_WRITABLE \in sel.flagsOut
            => (OS_STREAM_STATE_WRITABLE \in sel.flagsIn /\ sel.id \in sel.confW)

\* C20: a multi-stream wait does not return OS_ERROR when the wait for at
\* least one requested direction succeeded.
C20_ErrorOnlyIfAllWaitsFailed ==
  (sel.op = "multi" /\ (sel.rdSt = OS_SUCCESS \/ sel.wrSt = OS_SUCCESS))
    => sel.code # OS_ERROR

\* C21: a read with a finite timeout on a stream whose peer has
\* disconnected does not return OS_ERROR_TIMEOUT.
C21_NoTimeoutAfterDisconnect ==
  (rcall.op = "read" /\ rcall.nbytes > 0 /\ rcall.timeout >= 0
     /\ link[rcall.id] = "dropped")
    => rcall.code # OS_ERROR_TIMEOUT

\* C22: a wait with a timeout of 0 ms gives the host a timeout of zero
\* ticks, a negative timeout is given as wait-forever, and any other timeout
\* as its milliseconds converted to ticks.
C22_TimeoutConvention ==
  tcall.op = "DoSelect"
    => /\ tcall.arg = 0 => (~tcall.forever /\ tcall.ticks = 0)
       /\ tcall.arg < 0 => tcall.forever
       /\ tcall.arg > 0 => (~tcall.forever
                            /\ tcall.ticks = OS_UsecsToTicks(tcall.arg * 1000, tickRate))

\* C23: converting n microseconds to ticks and the ticks back to
\* microseconds gives at least n.
C23_RoundTripCovers ==
  tcall.op = "RoundTrip" => tcall.usecs >= tcall.arg

\* C25: no half-constructed timer is reachable by a handle: while a
\* OS_TimerCreate has reserved a slot and its host timer is not created yet,
\* the handle operations reject the slot's index and no GetIdByName returns
\* it; and when the constructor fails the slot is free again and no host
\* timer is left allocated.
C25_NoHalfConstructedTimer ==
  [][kind = "timer" =>
       \A t \in Procs :
         /\ pc'[t] \in {"reserved", "named"}
              => /\ UseRejects(tbl', loc'[t].slot)
                 /\ \A n \in Names : FindByName(tbl', n) # loc'[t].slot
         /\ (CreateReturns(t) /\ last'.code # OS_SUCCESS)
              => (tbl'[loc[t].slot].free /\ kobj' = kobj)]_vars

\* C26: OS_TimerDelete deletes the host timer before it releases the slot:
\* while a Delete has not deleted the host timer of its slot yet, the slot
\* is not free and no Create holds it.
C26_HostTimerDeletedFirst ==
  kind = "timer" =>
    \A u \in Procs :
      (pc[u] = "tdel_freed" /\ tbl[loc[u].slot].id \in kobj)
        => /\ ~tbl[loc[u].slot].free
           /\ \A t \in Procs : pc[t] \in CreateStages => loc[t].slot # loc[u].slot

\* C30: whenever no Create or Delete is in progress the active-object
\* counter of the kind equals the number of slots that are neither free nor
\* deleted.
C30_CounterMatchesSlots ==
  (HasCount(kind) /\ \A t \in Procs : pc[t] = "idle")
    => count = Cardinality({i \in Slots : ~tbl[i].free /\ ~tbl[i].deleted})

\* the codes with which a call rejects an argument
ArgumentErrors ==
  {OS_INVALID_POINTER, OS_ERR_NAME_TOO_LONG, OS_ERR_INVALID_PRIORITY,
   OS_QUEUE_INVALID_SIZE, OS_INVALID_SEM_VALUE, OS_TIMER_ERR_INVALID_ARGS,
   OS_ERR_INVALID_ID}

\* C29: a Create, Delete or GetIdByName that is rejected because an
\* argument is invalid changes no table slot, no active-object counter and
\* not the name-disambiguation counter.
C29_RejectedCallChangesNothing ==
  [][(acall'.op # "none" /\ acall'.code \in ArgumentErrors)
       => (tbl' = tbl /\ count' = count /\ name_counter' = name_counter)]_vars

\* C28: every entry point of an unsupported capability returns a
\* not-implemented code; none returns OS_SUCCESS, since none carries out
\* its operation.
C28_UnsupportedNotImplemented ==
  [][scall'.fn \in Unsupported
       => /\ scall'.code \in {OS_ERR_NOT_IMPLEMENTED, OS_FS_UNIMPLEMENTED}
          /\ scall'.code = OS_SUCCESS
               => [intEnabled |-> intEnabled', fpuMask |-> fpuMask']
                    = Performed(scall'.fn, scall'.arg, intEnabled, fpuMask)]_vars

C24_ExpiresAfterStartThenEveryInterval ==
  [][(tev'.op = "expire" /\ tev'.code = "callback")
       => /\ tev'.waited >= tev'.due
          /\ tmr.interval_time > 0 => tmr'.armed
          /\ tmr.interval_time = 0 => ~tmr'.armed]_vars

\* C31: a Delete never accepts a slot that a Create has reserved and has
\* not finished: no Delete passes its validity check on such a slot (so it
\* neither calls the kernel destructor on the slot's host handle nor marks
\* the slot deleted), and the handle a Create returns with OS_SUCCESS
\* denotes a slot that is neither free nor deleted.
C31_DeleteOfReservedSlotRejected ==
  [][/\ \A u \in Procs, t \in Procs :
          (pc[u] = "idle" /\ pc'[u] \in {"deleting", "tdel_checked"}
             /\ pc[t] \in CreateStages)
            => loc'[u].slot # loc[t].slot
     /\ \A t \in Procs : CreateSucceeds(t) => HandleValid(last'.h)]_vars

\* C32: of the Delete calls made on one valid handle at most one is accepted:
\* a live slot never has two Delete calls past the validity check (each of
\* which calls the kernel destructor and returns OS_SUCCESS).
C32_OneDeleteSucceeds ==
  \A i \in Slots :
    LiveSlot(i) =>
      Cardinality({t \in Procs : /\ pc[t] \in {"deleting", "tdel_checked"}
                                 /\ loc[t].slot = i}) <= 1

\* C33: when OS_TimerDelete(h) returns, having been accepted on a slot whose
\* host timer still exists, the host timer it has deleted is the one slot h
\* held when the call was accepted and no other, so that this host timer no
\* longer exists (and cannot expire and call the callback of h).
C33_DeletesItsOwnHostTimer ==
  [][kind = "timer" =>
       \A t \in Procs :
         (pc[t] = "tdel_freed" /\ pc'[t] = "idle" /\ loc[t].snap.id \in kobj)
           => kobj' = kobj \ {loc[t].snap.id}]_vars

\* C34: every index a Create uses on its table is below the table's size:
\* the slot it reserves is a slot of the table, and the table entry whose
\* entry_number OS_TimerCreate hands to the host timer as its identifier is
\* inside the table and is the slot reserved for the new timer.
C34_CreateIndicesInTable ==
  [][\A t \in Procs :
       /\ pc'[t] \in CreateStages => loc'[t].slot \in Slots
       /\ (kind = "timer" /\ pc[t] = "named" /\ pc'[t] = "idle")
            => /\ pvTimerID(loc[t]) \in Slots
               /\ pvTimerID(loc[t]) = loc[t].slot]_vars

\* ---------------------------------------------------------------------------
\* The table mutexes along every path of the functions that take one
\*
\* Each function is the set of its paths from entry to return; a path is the
\* sequence of its xSemaphoreTake and xSemaphoreGive calls on a table mutex
\* and of the return statement that ends it, each with its source line.
\* ---------------------------------------------------------------------------

\* the functions of osapi.c (src/unnamed/part_003) that take a table mutex
osapi_LockPaths ==
  [OS_TaskCreate |->  \* 812-910
     {<<<<"return", "", 822>>>>,
      <<<<"return", "", 831>>>>,
      <<<<"return", "", 834>>>>,
      <<<<"return", "", 845>>>>,
      <<<<"take", "OS_task_table_sem", 849>>, <<"give", "OS_task_table_sem", 853>>, <<"return", "", 854>>>>,
      <<<<"take", "OS_task_table_sem", 849>>, <<"give", "OS_task_table_sem", 867>>, <<"return", "", 868>>>>,
      <<<<"take", "OS_task_table_sem", 849>>, <<"give", "OS_task_table_sem", 875>>, <<"return", "", 876>>>>,
      <<<<"take", "OS_task_table_sem", 849>>, <<"give", "OS_task_table_sem", 883>>, <<"take", "OS_task_table_sem", 889>>, <<"give", "OS_task_table_sem", 891>>, <<"return", "", 892>>>>,
      <<<<"take", "OS_task_table_sem", 849>>, <<"give", "OS_task_table_sem", 883>>, <<"take", "OS_task_table_sem", 900>>, <<"give", "OS_task_table_sem", 907>>, <<"return", "", 909>>>>},
   OS_TaskDelete |->  \* 922-961
     {<<<<"return", "", 929>>>>,
      <<<<"take", "OS_task_table_sem", 948>>, <<"give", "OS_task_table_sem", 958>>, <<"return", "", 960>>>>},
   OS_TaskExit |->  \* 970-988
     {<<<<"take", "OS_task_table_sem", 975>>, <<"give", "OS_task_table_sem", 985>>, <<"return", "", 988>>>>},
   OS_TaskGetInfo |->  \* 1152-1174
     {<<<<"return", "", 1155>>>>,
      <<<<"return", "", 1159>>>>,
      <<<<"take", "OS_task_table_sem", 1163>>, <<"give", "OS_task_table_sem", 1169>>, <<"return", "", 1173>>>>},
   OS_TaskInstallDeleteHandler |->  \* 1183-1211
     {<<<<"return", "", 1189>>>>,
      <<<<"take", "OS_task_table_sem", 1192>>, <<"give", "OS_task_table_sem", 1198>>, <<"return", "", 1199>>>>,
      <<<<"take", "OS_task_table_sem", 1192>>, <<"give", "OS_task_table_sem", 1207>>, <<"return", "", 1209>>>>},
   OS_QueueCreate |->  \* 1231-1319
     {<<<<"return", "", 1238>>>>,
      <<<<"return", "", 1247>>>>,
      <<<<"return", "", 1250>>>>,
      <<<<"return", "", 1254>>>>,
      <<<<"take", "OS_queue_table_sem", 1257>>, <<"give", "OS_queue_table_sem", 1261>>, <<"return", "", 1262>>>>,
      <<<<"take", "OS_queue_table_sem", 1257>>, <<"give", "OS_queue_table_sem", 1272>>, <<"return", "", 1273>>>>,
      <<<<"take", "OS_queue_table_sem", 1257>>, <<"give", "OS_queue_table_sem", 1280>>, <<"return", "", 1281>>>>,
      <<<<"take", "OS_queue_table_sem", 1257>>, <<"give", "OS_queue_table_sem", 1287>>, <<"take", "OS_queue_table_sem", 1298>>, <<"give", "OS_queue_table_sem", 1301>>, <<"return", "", 1302>>>>,
      <<<<"take", "OS_queue_table_sem", 1257>>, <<"give", "OS_queue_table_sem", 1287>>, <<"take", "OS_queue_table_sem", 1309>>, <<"give", "OS_queue_table_sem", 1316>>, <<"return", "", 1318>>>>},
   OS_QueueDelete |->  \* 1333-1367
     {<<<<"return", "", 1341>>>>,
      <<<<"take", "OS_queue_table_sem", 1354>>, <<"give", "OS_queue_table_sem", 1363>>, <<"return", "", 1365>>>>},
   OS_QueueGetInfo |->  \* 1560-1577
     {<<<<"return", "", 1563>>>>,
      <<<<"return", "", 1567>>>>,
      <<<<"take", "OS_queue_table_sem", 1571>>, <<"give", "OS_queue_table_sem", 1574>>, <<"return", "", 1576>>>>},
   OS_BinSemCreate |->  \* 1600-1689
     {<<<<"return", "", 1606>>>>,
      <<<<"return", "", 1615>>>>,
      <<<<"return", "", 1618>>>>,
      <<<<"take", "OS_bin_sem_table_sem", 1622>>, <<"give", "OS_bin_sem_table_sem", 1626>>, <<"return", "", 1627>>>>,
      <<<<"take", "OS_bin_sem_table_sem", 1622>>, <<"give", "OS_bin_sem_table_sem", 1638>>, <<"return", "", 1639>>>>,
      <<<<"take", "OS_bin_sem_table_sem", 1622>>, <<"give", "OS_bin_sem_table_sem", 1646>>, <<"return", "", 1647>>>>,
      <<<<"take", "OS_bin_sem_table_sem", 1622>>, <<"give", "OS_bin_sem_table_sem", 1651>>, <<"take", "OS_bin_sem_table_sem", 1663>>, <<"give", "OS_bin_sem_table_sem", 1666>>, <<"return", "", 1667>>>>,
      <<<<"take", "OS_bin_sem_table_sem", 1622>>, <<"give", "OS_bin_sem_table_sem", 1651>>, <<"take", "OS_bin_sem_table_sem", 1680>>, <<"give", "OS_bin_sem_table_sem", 1686>>, <<"return", "", 1688>>>>},
   OS_BinSemDelete |->  \* 1702-1726
     {<<<<"return", "", 1707>>>>,
      <<<<"take", "OS_bin_sem_table_sem", 1716>>, <<"give", "OS_bin_sem_table_sem", 1723>>, <<"return", "", 1725>>>>},
   OS_BinSemGetInfo |->  \* 1905-1927
     {<<<<"return", "", 1909>>>>,
      <<<<"return", "", 1913>>>>,
      <<<<"take", "OS_bin_sem_table_sem", 1917>>, <<"give", "OS_bin_sem_table_sem", 1923>>, <<"return", "", 1925>>>>},
   OS_CountSemCreate |->  \* 1945-2035
     {<<<<"return", "", 1954>>>>,
      <<<<"return", "", 1961>>>>,
      <<<<"return", "", 1972>>>>,
      <<<<"return", "", 1975>>>>,
      <<<<"take", "OS_count_sem_table_sem", 1981>>, <<"give", "OS_count_sem_table_sem", 1991>>, <<"return", "", 1992>>>>,
      <<<<"take", "OS_count_sem_table_sem", 1981>>, <<"give", "OS_count_sem_table_sem", 1999>>, <<"return", "", 2000>>>>,
      <<<<"take", "OS_count_sem_table_sem", 1981>>, <<"give", "OS_count_sem_table_sem", 2004>>, <<"take", "OS_count_sem_table_sem", 2011>>, <<"give", "OS_count_sem_table_sem", 2013>>, <<"return", "", 2015>>>>,
      <<<<"take", "OS_count_sem_table_sem", 1981>>, <<"give", "OS_count_sem_table_sem", 2004>>, <<"take", "OS_count_sem_table_sem", 2022>>, <<"give", "OS_count_sem_table_sem", 2031>>, <<"return", "", 2033>>>>},
   OS_CountSemDelete |->  \* 2048-2074
     {<<<<"return", "", 2054>>>>,
      <<<<"take", "OS_count_sem_table_sem", 2063>>, <<"give", "OS_count_sem_table_sem", 2070>>, <<"return", "", 2072>>>>},
   OS_CountSemGetInfo |->  \* 2244-2275
     {<<<<"return", "", 2249>>>>,
      <<<<"return", "", 2253>>>>,
      <<<<"take", "OS_count_sem_table_sem", 2259>>, <<"give", "OS_count_sem_table_sem", 2271>>, <<"return", "", 2273>>>>},
   OS_MutSemCreate |->  \* 2297-2375
     {<<<<"return", "", 2303>>>>,
      <<<<"return", "", 2314>>>>,
      <<<<"return", "", 2317>>>>,
      <<<<"take", "OS_mut_sem_table_sem", 2320>>, <<"give", "OS_mut_sem_table_sem", 2324>>, <<"return", "", 2325>>>>,
      <<<<"take", "OS_mut_sem_table_sem", 2320>>, <<"give", "OS_mut_sem_table_sem", 2336>>, <<"return", "", 2337>>>>,
      <<<<"take", "OS_mut_sem_table_sem", 2320>>, <<"give", "OS_mut_sem_table_sem", 2344>>, <<"return", "", 2345>>>>,
      <<<<"take", "OS_mut_sem_table_sem", 2320>>, <<"give", "OS_mut_sem_table_sem", 2350>>, <<"take", "OS_mut_sem_table_sem", 2357>>, <<"give", "OS_mut_sem_table_sem", 2359>>, <<"return", "", 2360>>>>,
      <<<<"take", "OS_mut_sem_table_sem", 2320>>, <<"give", "OS_mut_sem_table_sem", 2350>>, <<"take", "OS_mut_sem_table_sem", 2365>>, <<"give", "OS_mut_sem_table_sem", 2371>>, <<"return", "", 2373>>>>},
   OS_MutSemDelete |->  \* 2388-2409
     {<<<<"return", "", 2392>>>>,
      <<<<"take", "OS_mut_sem_table_sem", 2398>>, <<"give", "OS_mut_sem_table_sem", 2406>>, <<"return", "", 2408>>>>},
   OS_MutSemGetInfo |->  \* 2525-2543
     {<<<<"return", "", 2528>>>>,
      <<<<"return", "", 2532>>>>,
      <<<<"take", "OS_mut_sem_table_sem", 2536>>, <<"give", "OS_mut_sem_table_sem", 2539>>, <<"return", "", 2541>>>>}]

\* OS_TimerCreate with the xSemaphoreGive of line 215 left out: the call
\* rejected for a NULL callback returns with OS_timer_table_sem held
OS_TimerCreate_LockPaths_NoGive ==
  {<<<<"return", "", 167>>>>,
   <<<<"return", "", 178>>>>,
   <<<<"return", "", 181>>>>,
   <<<<"take", "OS_timer_table_sem", 187>>, <<"give", "OS_timer_table_sem", 196>>, <<"return", "", 197>>>>,
   <<<<"take", "OS_timer_table_sem", 187>>, <<"give", "OS_timer_table_sem", 206>>, <<"return", "", 207>>>>,
   <<<<"take", "OS_timer_table_sem", 187>>, <<"return", "", 216>>>>,
   <<<<"take", "OS_timer_table_sem", 187>>, <<"give", "OS_timer_table_sem", 224>>, <<"return", "", 242>>>>,
   <<<<"take", "OS_timer_table_sem", 187>>, <<"give", "OS_timer_table_sem", 224>>, <<"return", "", 255>>>>}

\* OS_TimerCreate 161-256
OS_TimerCreate_LockPaths ==
  {<<<<"return", "", 167>>>>,
   <<<<"return", "", 178>>>>,
   <<<<"return", "", 181>>>>,
   <<<<"take", "OS_timer_table_sem", 187>>, <<"give", "OS_timer_table_sem", 196>>, <<"return", "", 197>>>>,
   <<<<"take", "OS_timer_table_sem", 187>>, <<"give", "OS_timer_table_sem", 206>>, <<"return", "", 207>>>>,
   <<<<"take", "OS_timer_table_sem", 187>>, <<"give", "OS_timer_table_sem", 215>>, <<"return", "", 216>>>>,
   <<<<"take", "OS_timer_table_sem", 187>>, <<"give", "OS_timer_table_sem", 224>>, <<"return", "", 242>>>>,
   <<<<"take", "OS_timer_table_sem", 187>>, <<"give", "OS_timer_table_sem", 224>>, <<"return", "", 255>>>>}

\* the functions of ostimer.c that take a table mutex
ostimer_LockPaths ==
  [OS_TimerCreate |->
     OS_TimerCreate_LockPaths,
   OS_TimerDelete |->  \* 379-402
     {<<<<"return", "", 386>>>>,
      <<<<"take", "OS_timer_table_sem", 389>>, <<"give", "OS_timer_table_sem", 391>>, <<"return", "", 398>>>>,
      <<<<"take", "OS_timer_table_sem", 389>>, <<"give", "OS_timer_table_sem", 391>>, <<"return", "", 401>>>>},
   OS_TimerGetInfo |->  \* 493-519
     {<<<<"return", "", 498>>>>,
      <<<<"return", "", 502>>>>,
      <<<<"take", "OS_timer_table_sem", 508>>, <<"give", "OS_timer_table_sem", 516>>, <<"return", "", 518>>>>}]

\* the functions of osfileapi.c that take a table mutex
osfileapi_LockPaths ==
  [OS_creat |->  \* 180-298
     {<<<<"return", "", 191>>>>,
      <<<<"return", "", 198>>>>,
      <<<<"return", "", 205>>>>,
      <<<<"return", "", 220>>>>,
      <<<<"return", "", 227>>>>,
      <<<<"take", "OS_FDTableSem", 231>>, <<"give", "OS_FDTableSem", 240>>, <<"return", "", 241>>>>,
      <<<<"take", "OS_FDTableSem", 231>>, <<"give", "OS_FDTableSem", 250>>, <<"return", "", 295>>>>,
      <<<<"take", "OS_FDTableSem", 231>>, <<"give", "OS_FDTableSem", 250>>, <<"take", "OS_FDTableSem", 258>>, <<"give", "OS_FDTableSem", 265>>, <<"return", "", 266>>>>,
      <<<<"take", "OS_FDTableSem", 231>>, <<"give", "OS_FDTableSem", 250>>, <<"take", "OS_FDTableSem", 268>>, <<"give", "OS_FDTableSem", 271>>, <<"return", "", 272>>>>,
      <<<<"take", "OS_FDTableSem", 231>>, <<"give", "OS_FDTableSem", 250>>, <<"take", "OS_FDTableSem", 278>>, <<"give", "OS_FDTableSem", 285>>, <<"return", "", 286>>>>,
      <<<<"take", "OS_FDTableSem", 231>>, <<"give", "OS_FDTableSem", 250>>, <<"take", "OS_FDTableSem", 288>>, <<"give", "OS_FDTableSem", 291>>, <<"return", "", 292>>>>},
   OS_open |->  \* 315-439
     {<<<<"return", "", 326>>>>,
      <<<<"return", "", 333>>>>,
      <<<<"return", "", 340>>>>,
      <<<<"return", "", 357>>>>,
      <<<<"return", "", 364>>>>,
      <<<<"take", "OS_FDTableSem", 367>>, <<"give", "OS_FDTableSem", 376>>, <<"return", "", 377>>>>,
      <<<<"take", "OS_FDTableSem", 367>>, <<"give", "OS_FDTableSem", 386>>, <<"return", "", 436>>>>,
      <<<<"take", "OS_FDTableSem", 367>>, <<"give", "OS_FDTableSem", 386>>, <<"take", "OS_FDTableSem", 396>>, <<"give", "OS_FDTableSem", 403>>, <<"return", "", 405>>>>,
      <<<<"take", "OS_FDTableSem", 367>>, <<"give", "OS_FDTableSem", 386>>, <<"take", "OS_FDTableSem", 407>>, <<"give", "OS_FDTableSem", 410>>, <<"return", "", 411>>>>,
      <<<<"take", "OS_FDTableSem", 367>>, <<"give", "OS_FDTableSem", 386>>, <<"take", "OS_FDTableSem", 418>>, <<"give", "OS_FDTableSem", 425>>, <<"return", "", 427>>>>,
      <<<<"take", "OS_FDTableSem", 367>>, <<"give", "OS_FDTableSem", 386>>, <<"take", "OS_FDTableSem", 429>>, <<"give", "OS_FDTableSem", 432>>, <<"return", "", 433>>>>},
   OS_close |->  \* 451-527
     {<<<<"return", "", 460>>>>,
      <<<<"return", "", 524>>>>,
      <<<<"take", "OS_FDTableSem", 469>>, <<"give", "OS_FDTableSem", 476>>, <<"return", "", 478>>>>,
      <<<<"take", "OS_FDTableSem", 481>>, <<"give", "OS_FDTableSem", 488>>, <<"return", "", 490>>>>,
      <<<<"take", "OS_FDTableSem", 500>>, <<"give", "OS_FDTableSem", 507>>, <<"return", "", 509>>>>,
      <<<<"take", "OS_FDTableSem", 512>>, <<"give", "OS_FDTableSem", 519>>, <<"return", "", 521>>>>},
   OS_opendir |->  \* 1276-1387
     {<<<<"return", "", 1287>>>>,
      <<<<"return", "", 1294>>>>,
      <<<<"return", "", 1301>>>>,
      <<<<"return", "", 1380>>>>,
      <<<<"take", "OS_DirTableSem", 1307>>, <<"give", "OS_DirTableSem", 1317>>, <<"return", "", 1318>>>>,
      <<<<"take", "OS_DirTableSem", 1307>>, <<"give", "OS_DirTableSem", 1338>>, <<"return", "", 1339>>>>,
      <<<<"take", "OS_DirTableSem", 1307>>, <<"give", "OS_DirTableSem", 1342>>, <<"return", "", 1386>>>>,
      <<<<"take", "OS_DirTableSem", 1344>>, <<"give", "OS_DirTableSem", 1354>>, <<"return", "", 1355>>>>,
      <<<<"take", "OS_DirTableSem", 1344>>, <<"give", "OS_DirTableSem", 1374>>, <<"return", "", 1375>>>>,
      <<<<"take", "OS_DirTableSem", 1344>>, <<"give", "OS_DirTableSem", 1378>>, <<"return", "", 1386>>>>},
   OS_closedir |->  \* 1402-1459
     {<<<<"return", "", 1406>>>>,
      <<<<"take", "OS_DirTableSem", 1409>>, <<"give", "OS_DirTableSem", 1423>>, <<"return", "", 1424>>>>,
      <<<<"take", "OS_DirTableSem", 1409>>, <<"give", "OS_DirTableSem", 1428>>, <<"return", "", 1429>>>>,
      <<<<"take", "OS_DirTableSem", 1409>>, <<"give", "OS_DirTableSem", 1447>>, <<"return", "", 1448>>>>,
      <<<<"take", "OS_DirTableSem", 1409>>, <<"give", "OS_DirTableSem", 1452>>, <<"return", "", 1453>>>>,
      <<<<"take", "OS_DirTableSem", 1409>>, <<"give", "OS_DirTableSem", 1456>>, <<"return", "", 1458>>>>},
   OS_readdir |->  \* 1482-1559
     {<<<<"return", "", 1487>>>>,
      <<<<"take", "OS_DirTableSem", 1490>>, <<"give", "OS_DirTableSem", 1504>>, <<"return", "", 1505>>>>,
      <<<<"take", "OS_DirTableSem", 1490>>, <<"give", "OS_DirTableSem", 1510>>, <<"return", "", 1511>>>>,
      <<<<"take", "OS_DirTableSem", 1490>>, <<"give", "OS_DirTableSem", 1523>>, <<"return", "", 1524>>>>,
      <<<<"take", "OS_DirTableSem", 1490>>, <<"give", "OS_DirTableSem", 1530>>, <<"return", "", 1531>>>>,
      <<<<"take", "OS_DirTableSem", 1490>>, <<"give", "OS_DirTableSem", 1540>>, <<"return", "", 1545>>>>,
      <<<<"take", "OS_DirTableSem", 1490>>, <<"give", "OS_DirTableSem", 1550>>, <<"return", "", 1554>>>>,
      <<<<"take", "OS_DirTableSem", 1490>>, <<"give", "OS_DirTableSem", 1556>>, <<"return", "", 1557>>>>},
   OS_rewinddir |->  \* 1569-1619
     {<<<<"return", "", 1574>>>>,
      <<<<"take", "OS_DirTableSem", 1577>>, <<"give", "OS_DirTableSem", 1591>>, <<"return", "", 1592>>>>,
      <<<<"take", "OS_DirTableSem", 1577>>, <<"give", "OS_DirTableSem", 1597>>, <<"return", "", 1598>>>>,
      <<<<"take", "OS_DirTableSem", 1577>>, <<"give", "OS_DirTableSem", 1604>>, <<"return", "", 1608>>>>,
      <<<<"take", "OS_DirTableSem", 1577>>, <<"give", "OS_DirTableSem", 1604>>, <<"return", "", 1619>>>>,
      <<<<"take", "OS_DirTableSem", 1577>>, <<"give", "OS_DirTableSem", 1613>>, <<"return", "", 1619>>>>,
      <<<<"take", "OS_DirTableSem", 1577>>, <<"give", "OS_DirTableSem", 1616>>, <<"return", "", 1617>>>>},
   OS_FileOpenCheck |->  \* 1776-1795
     {<<<<"return", "", 1780>>>>,
      <<<<"take", "OS_FDTableSem", 1783>>, <<"give", "OS_FDTableSem", 1788>>, <<"return", "", 1789>>>>,
      <<<<"take", "OS_FDTableSem", 1783>>, <<"give", "OS_FDTableSem", 1793>>, <<"return", "", 1794>>>>},
   OS_CloseFileByName |->  \* 1808-1855
     {<<<<"return", "", 1814>>>>,
      <<<<"return", "", 1830>>>>,
      <<<<"return", "", 1854>>>>,
      <<<<"take", "OS_FDTableSem", 1837>>, <<"give", "OS_FDTableSem", 1844>>, <<"return", "", 1846>>>>,
      <<<<"take", "OS_FDTableSem", 1837>>, <<"give", "OS_FDTableSem", 1844>>, <<"return", "", 1848>>>>},
   OS_CloseAllFiles |->  \* 1865-1906
     {<<<<"return", "", 1883>>>>,
      <<<<"return", "", 1905>>>>,
      <<<<"take", "OS_FDTableSem", 1890>>, <<"give", "OS_FDTableSem", 1897>>, <<"return", "", 1883>>>>,
      <<<<"take", "OS_FDTableSem", 1890>>, <<"give", "OS_FDTableSem", 1897>>, <<"return", "", 1905>>>>,
      <<<<"take", "OS_FDTableSem", 1890>>, <<"give", "OS_FDTableSem", 1897>>, <<"take", "OS_FDTableSem", 1890>>, <<"give", "OS_FDTableSem", 1897>>, <<"return", "", 1905>>>>}]

\* the functions of the file-system functions (ostimerex.h) that take a table mutex
osfilesys_LockPaths ==
  [OS_mkfs |->  \* 94-195
     {<<<<"return", "", 105>>>>,
      <<<<"return", "", 109>>>>,
      <<<<"return", "", 114>>>>,
      <<<<"return", "", 120>>>>,
      <<<<"take", "OS_VolumeTableSem", 129>>, <<"give", "OS_VolumeTableSem", 140>>, <<"return", "", 141>>>>,
      <<<<"take", "OS_VolumeTableSem", 129>>, <<"give", "OS_VolumeTableSem", 191>>, <<"return", "", 193>>>>},
   OS_rmfs |->  \* 206-245
     {<<<<"return", "", 244>>>>,
      <<<<"take", "OS_VolumeTableSem", 218>>, <<"give", "OS_VolumeTableSem", 242>>, <<"return", "", 244>>>>},
   OS_mount |->  \* 276-335
     {<<<<"return", "", 281>>>>,
      <<<<"return", "", 286>>>>,
      <<<<"take", "OS_VolumeTableSem", 292>>, <<"give", "OS_VolumeTableSem", 305>>, <<"return", "", 306>>>>,
      <<<<"take", "OS_VolumeTableSem", 292>>, <<"give", "OS_VolumeTableSem", 324>>, <<"return", "", 325>>>>,
      <<<<"take", "OS_VolumeTableSem", 292>>, <<"give", "OS_VolumeTableSem", 331>>, <<"return", "", 333>>>>},
   OS_unmount |->  \* 348-412
     {<<<<"return", "", 353>>>>,
      <<<<"return", "", 357>>>>,
      <<<<"take", "OS_VolumeTableSem", 365>>, <<"give", "OS_VolumeTableSem", 380>>, <<"return", "", 381>>>>,
      <<<<"take", "OS_VolumeTableSem", 365>>, <<"give", "OS_VolumeTableSem", 403>>, <<"return", "", 404>>>>,
      <<<<"take", "OS_VolumeTableSem", 365>>, <<"give", "OS_VolumeTableSem", 410>>, <<"return", "", 411>>>>},
   OS_fsBlocksFree |->  \* 424-481
     {<<<<"return", "", 430>>>>,
      <<<<"return", "", 437>>>>,
      <<<<"take", "OS_VolumeTableSem", 448>>, <<"give", "OS_VolumeTableSem", 458>>, <<"return", "", 461>>>>,
      <<<<"take", "OS_VolumeTableSem", 448>>, <<"give", "OS_VolumeTableSem", 458>>, <<"return", "", 463>>>>,
      <<<<"take", "OS_VolumeTableSem", 448>>, <<"give", "OS_VolumeTableSem", 469>>, <<"return", "", 471>>>>,
      <<<<"take", "OS_VolumeTableSem", 448>>, <<"give", "OS_VolumeTableSem", 474>>, <<"return", "", 475>>>>},
   OS_fsBytesFree |->  \* 493-533
     {<<<<"return", "", 499>>>>,
      <<<<"return", "", 506>>>>,
      <<<<"take", "OS_VolumeTableSem", 517>>, <<"give", "OS_VolumeTableSem", 524>>, <<"return", "", 529>>>>,
      <<<<"take", "OS_VolumeTableSem", 517>>, <<"give", "OS_VolumeTableSem", 524>>, <<"return", "", 531>>>>}]

\* the functions of osloader.c that take a table mutex
osloader_LockPaths ==
  [OS_SymbolLookup |->  \* 137-166
     {<<<<"return", "", 144>>>>,
      <<<<"take", "OS_module_table_sem", 151>>, <<"give", "OS_module_table_sem", 160>>, <<"return", "", 161>>>>,
      <<<<"take", "OS_module_table_sem", 151>>, <<"give", "OS_module_table_sem", 164>>, <<"return", "", 165>>>>},
   OS_SymbolTableDump |->  \* 179-252
     {<<<<"return", "", 191>>>>,
      <<<<"return", "", 194>>>>,
      <<<<"return", "", 201>>>>,
      <<<<"return", "", 251>>>>,
      <<<<"take", "OS_module_table_sem", 212>>, <<"give", "OS_module_table_sem", 237>>, <<"return", "", 239>>>>,
      <<<<"take", "OS_module_table_sem", 212>>, <<"give", "OS_module_table_sem", 243>>, <<"return", "", 251>>>>},
   OS_ModuleLoad |->  \* 271-375
     {<<<<"return", "", 285>>>>,
      <<<<"take", "OS_module_table_sem", 288>>, <<"give", "OS_module_table_sem", 304>>, <<"return", "", 305>>>>,
      <<<<"take", "OS_module_table_sem", 288>>, <<"give", "OS_module_table_sem", 314>>, <<"return", "", 315>>>>,
      <<<<"take", "OS_module_table_sem", 288>>, <<"give", "OS_module_table_sem", 324>>, <<"return", "", 333>>>>,
      <<<<"take", "OS_module_table_sem", 288>>, <<"give", "OS_module_table_sem", 324>>, <<"return", "", 346>>>>,
      <<<<"take", "OS_module_table_sem", 288>>, <<"give", "OS_module_table_sem", 324>>, <<"return", "", 373>>>>}]
LockPaths ==
  osapi_LockPaths @@ ostimer_LockPaths @@ osfileapi_LockPaths
    @@ osfilesys_LockPaths @@ osloader_LockPaths

\* the table mutex a function works under
SemOf(fn) ==
  CHOOSE l \in TableSems :
    \E p \in LockPaths[fn] : \E k \in DOMAIN p : p[k][2] = l

Event(t) == run[t].path[run[t].at]

PathOthers ==
  <<tableVars, lockVars, handleVars, selVars, readVars, tickVars, argVars,
    stubVars, semVars, timerVars, nameVars>>

\* task t enters function fn; the arguments and the table decide the path p
Path_Call(t, fn, p) ==
  /\ done = NoDone
  /\ run[t] = NoRun
  /\ SemOf(fn) = psem
  /\ p \in LockPaths[fn]
  /\ run' = [run EXCEPT ![t] = [fn |-> fn, path |-> p, at |-> 1]]
  /\ UNCHANGED <<psem, mtx, done>>
  /\ UNCHANGED PathOthers

\* xSemaphoreTake(sem, portMAX_DELAY): blocks while another task holds sem
Path_Take(t) ==
  /\ done = NoDone
  /\ run[t] # NoRun
  /\ Event(t)[1] = "take"
  /\ mtx[Event(t)[2]] = "none"
  /\ mtx' = [mtx EXCEPT ![Event(t)[2]] = t]
  /\ run' = [run EXCEPT ![t].at = @ + 1]
  /\ UNCHANGED <<psem, done>>
  /\ UNCHANGED PathOthers

\* xSemaphoreGive(sem): releases sem if the caller holds it
Path_Give(t) ==
  /\ done = NoDone
  /\ run[t] # NoRun
  /\ Event(t)[1] = "give"
  /\ mtx' = [mtx EXCEPT ![Event(t)[2]] = IF @ = t THEN "none" ELSE @]
  /\ run' = [run EXCEPT ![t].at = @ + 1]
  /\ UNCHANGED <<psem, done>>
  /\ UNCHANGED PathOthers

\* the return statement that ends the path
Path_Return(t) ==
  /\ done = NoDone
  /\ run[t] # NoRun
  /\ Event(t)[1] = "return"
  /\ done' = [t |-> t, fn |-> run[t].fn, line |-> Event(t)[3],
              took |-> \E k \in DOMAIN run[t].path : run[t].path[k][1] = "take"]
  /\ run' = [run EXCEPT ![t] = NoRun]
  /\ UNCHANGED <<psem, mtx>>
  /\ UNCHANGED PathOthers

\* the caller has looked at the outcome of the call
Path_Forget ==
  /\ done # NoDone
  /\ done' = NoDone
  /\ UNCHANGED <<psem, mtx, run>>
  /\ UNCHANGED PathOthers

PathInit ==
  /\ TablesIdle /\ LocksIdle /\ HandlesIdle /\ SelectIdle /\ ReadsIdle
  /\ TicksIdle /\ ArgsIdle /\ StubsIdle /\ BinSemIdle /\ TimersIdle /\ NamesIdle
  /\ psem \in TableSems
  /\ mtx = [l \in TableSems |-> "none"]
  /\ run = [t \in Procs |-> NoRun]
  /\ done = NoDone

PathNext ==
  \/ \E t \in Procs : \E fn \in DOMAIN LockPaths : \E p \in LockPaths[fn] : Path_Call(t, fn, p)
  \/ \E t \in Procs : Path_Take(t)
  \/ \E t \in Procs : Path_Give(t)
  \/ \E t \in Procs : Path_Return(t)
  \/ Path_Forget

SpecPaths == PathInit /\ [][PathNext]_vars

\* C35: every operation releases each table mutex it took before it returns,
\* whatever path it leaves by: a table mutex is held only by a task that is
\* inside a call, and the task whose call has just returned holds none.
C35_LocksReleasedOnEveryPath ==
  /\ \A l \in TableSems : mtx[l] # "none" => run[mtx[l]] # NoRun
  /\ done # NoDone => \A l \in TableSems : mtx[l] # done.t

\* OS_TimerCreate has returned through the NULL-callback rejection of line
\* 216, after taking OS_timer_table_sem, while another task is at its own
\* xSemaphoreTake of the same mutex, and the mutex is free for it
C35_Witness ==
  /\ done.fn = "OS_TimerCreate" /\ done.line = 216 /\ done.took
  /\ mtx["OS_timer_table_sem"] = "none"
  /\ \E u \in Procs :
       /\ run[u] # NoRun
       /\ Event(u)[1] = "take"
       /\ Event(u)[2] = "OS_timer_table_sem"

\* C37: after an OS_TimerSet with a start time of zero the timer is not
\* armed, also when an earlier OS_TimerSet had armed it: a successful
\* OS_TimerSet that stores start_time = 0 leaves the host timer stopped, and
\* OS_TimerShim never calls the callback of a timer whose stored start time
\* is zero.
C37_ZeroStartTimeDisarms ==
  [][/\ (tev'.op = "set" /\ tev'.code = OS_SUCCESS /\ tmr'.start_time = 0)
          => ~tmr'.armed
     /\ (tev'.op = "expire" /\ tev'.code = "callback")
          => tmr.start_time # 0]_vars

(***************************************************************************)
(*                 Opening and creating files                              *)
(*                                                                         *)
(* OS_open and OS_creat on OS_FDTable: htab[i] is OS_FDTable[i].IsValid.   *)
(* A call is two steps: the argument checks and the reservation of a slot  *)
(* under OS_FDTableSem, then OS_GetVolumeType, the host open and the       *)
(* completion or the reset of the slot.  The arguments are the access      *)
(* mode, whether OS_TranslatePath accepts the path, what OS_GetVolumeType  *)
(* reports for it and whether the host opens the file.  hcall.h is         *)
(* PossibleFD, -1 when the call reserved no slot.                          *)
(***************************************************************************)
OS_FS_ERR_NO_FREE_FDS == "OS_FS_ERR_NO_FREE_FDS"

AccessModes == {"OS_READ_ONLY", "OS_WRITE_ONLY", "OS_READ_WRITE", "other"}

\* what OS_GetVolumeType (ostimerex.h:824-914) can return for a path that
\* passed the argument checks: the type of the mounted volume, or
\* OS_FS_ERR_PATH_INVALID when it finds no mounted volume for the path
VolumeTypes == {"RAM_DISK", "FS_BASED", OS_FS_ERR_PATH_INVALID}

\* for (PossibleFD = 0; ...; PossibleFD++) if (IsValid == FALSE) break;
FirstFreeFD(T) ==
  LET freeFDs == {i \in DOMAIN T : ~T[i]}
  IN IF freeFDs = {} THEN OS_MAX_NUM_OPEN_FILES
     ELSE CHOOSE i \in freeFDs : \A j \in freeFDs : i <= j

FileOthers ==
  <<hk, tableVars, lockVars, selVars, readVars, tickVars, argVars, stubVars,
    semVars, timerVars, pathVars, nameVars>>

\* the first part of OS_open and OS_creat: the switch on the access mode,
\* OS_TranslatePath and the locked search for a free slot, which is marked
\* valid "so no other task can take that ID"
ReserveFD(t, op, accepted, translated) ==
  LET PossibleFD == FirstFreeFD(htab)
      reject(c)  == /\ hcall' = [op |-> op, h |-> -1, code |-> c]
                    /\ hacc' = {}
                    /\ UNCHANGED <<htab, fpc>>
  IN /\ hk = "fd"
     /\ fpc[t] = NoOpen
     /\ IF ~accepted THEN reject(OS_FS_ERROR)
        ELSE IF ~translated THEN reject(OS_FS_ERR_PATH_INVALID)
        ELSE IF PossibleFD >= OS_MAX_NUM_OPEN_FILES THEN reject(OS_FS_ERR_NO_FREE_FDS)
        ELSE /\ htab' = [htab EXCEPT ![PossibleFD] = TRUE]
             /\ fpc' = [fpc EXCEPT ![t] = [at |-> "reserved", op |-> op, fd |-> PossibleFD]]
             /\ UNCHANGED <<hcall, hacc>>
     /\ UNCHANGED FileOthers

\* OS_open (osfileapi.c:315-386)
OS_open_Reserve(t, access, translated) ==
  /\ access \in AccessModes
  /\ ReserveFD(t, "open", access \in {"OS_READ_ONLY", "OS_WRITE_ONLY", "OS_READ_WRITE"},
               translated)

\* OS_creat (osfileapi.c:180-249): "For creating a file, OS_READ_ONLY does
\* not make sense"
OS_creat_Reserve(t, access, translated) ==
  /\ access \in AccessModes
  /\ ReserveFD(t, "creat", access \in {"OS_WRITE_ONLY", "OS_READ_WRITE"}, translated)

\* the second part of OS_open (osfileapi.c:388-437) and of OS_creat
\* (osfileapi.c:251-296): on a RAM_DISK or FS_BASED volume the host open
\* and then, under OS_FDTableSem, the rest of the slot or IsValid = FALSE;
\* on anything else "return OS_FS_ERR_PATH_INVALID"
OpenFile(t, volume_type, opened) ==
  LET PossibleFD == fpc[t].fd
  IN /\ hk = "fd"
     /\ fpc[t].at = "reserved"
     /\ fpc' = [fpc EXCEPT ![t] = NoOpen]
     /\ hacc' = {PossibleFD}
     /\ IF volume_type \in {"RAM_DISK", "FS_BASED"}
        THEN IF opened
             THEN /\ htab' = htab
                  /\ hcall' = [op |-> fpc[t].op, h |-> PossibleFD, code |-> "PossibleFD"]
             ELSE /\ htab' = [htab EXCEPT ![PossibleFD] = FALSE]
                  /\ hcall' = [op |-> fpc[t].op, h |-> PossibleFD, code |-> OS_FS_ERROR]
        ELSE /\ htab' = htab
             /\ hcall' = [op |-> fpc[t].op, h |-> PossibleFD,
                          code |-> OS_FS_ERR_PATH_INVALID]
     /\ UNCHANGED FileOthers

\* OS_FS_Init: every descriptor slot is invalid
FileInit ==
  /\ TablesIdle /\ LocksIdle /\ SelectIdle /\ ReadsIdle /\ TicksIdle /\ ArgsIdle
  /\ StubsIdle /\ BinSemIdle /\ TimersIdle /\ PathsIdle /\ NamesIdle
  /\ hk = "fd"
  /\ htab = [i \in 0 .. (OS_MAX_NUM_OPEN_FILES - 1) |-> FALSE]
  /\ hcall = NoCall
  /\ hacc = {}
  /\ fpc = [t \in Procs |-> NoOpen]

FileNext ==
  \/ \E t \in Procs, a \in AccessModes, tr \in BOOLEAN : OS_open_Reserve(t, a, tr)
  \/ \E t \in Procs, a \in AccessModes, tr \in BOOLEAN : OS_creat_Reserve(t, a, tr)
  \/ \E t \in Procs, v \in VolumeTypes, o \in BOOLEAN : OpenFile(t, v, o)
  \/ \E h \in Handles("fd") : OS_close(h)

SpecFiles == FileInit /\ [][FileNext]_vars

\* C38: an OS_open or OS_creat that fails after it reserved a descriptor
\* slot (the host open fails or the volume is of an unsupported type) rolls
\* the reservation back: when the failed call returns its slot is invalid
\* again, so the call leaves as many valid slots as it found.
C38_FailedOpenRollsBack ==
  [][\A t \in Procs :
       (/\ fpc[t].at = "reserved"
        /\ fpc'[t] = NoOpen
        /\ hcall'.code # "PossibleFD")
         => ~htab'[fpc[t].fd]]_vars

(***************************************************************************)
(*                      Display names                                      *)
(*                                                                         *)
(* The name a Create gives the kernel object and stores in the slot's name *)
(* field: snprintf(os_unique_name, OS_MAX_API_NAME, "%-*.*s%02x",           *)
(* OS_MAX_API_NAME-3, OS_MAX_API_NAME-3, name, name_counter++).  A string  *)
(* is a sequence of characters.  name_counter is a file-static uint8 that  *)
(* the Create functions read and increment outside every lock, so the read *)
(* and the store of name_counter++ are two steps of the calling task.      *)
(* ntab is the object table: free, name and original_name of each slot.    *)
(***************************************************************************)

\* configMAX_TASK_NAME_LEN of the build, scaled down
OS_MAX_API_NAME == 5

\* static uint8 name_counter
CounterModulus == 256

HexDigits == <<"0", "1", "2", "3", "4", "5", "6", "7", "8", "9",
               "a", "b", "c", "d", "e", "f">>

\* %02x of a uint8
Hex2(c) == <<HexDigits[(c \div 16) + 1], HexDigits[(c % 16) + 1]>>

\* %-*.*s with width and precision w: the first w characters of s,
\* left-justified and padded with spaces to w characters
PadTruncate(s, w) ==
  IF Len(s) >= w THEN SubSeq(s, 1, w)
  ELSE s \o [i \in 1 .. (w - Len(s)) |-> " "]

\* os_unique_name: snprintf writes at most OS_MAX_API_NAME - 1 characters
os_unique_name(n, c) ==
  LET text == PadTruncate(n, OS_MAX_API_NAME - 3) \o Hex2(c)
  IN SubSeq(text, 1, IF Len(text) < OS_MAX_API_NAME THEN Len(text)
                     ELSE OS_MAX_API_NAME - 1)

\* a name of MAX_API_NAME_INCOMING characters, which every Create rejects
LongName == [i \in 1 .. MAX_API_NAME_INCOMING |-> "a"]

\* the names the callers pass: a short one, two that differ only after
\* the characters the display name keeps, and one that is too long
ObjNames == {<<"a">>, <<"a", "b", "c">>, <<"a", "b", "d">>, LongName}

\* how many rejected Creates a caller makes in a row
RejectedRuns == {1, CounterModulus - 1}

\* a slot that a Create has completed and that is in use
Populated(i) == ~ntab[i].free /\ \A t \in Procs : npc[t].slot # i

NameOthers ==
  <<kind, tbl, count, kobj, pc, loc, last, gone, lockVars, handleVars, selVars,
    readVars, tickVars, stubVars, semVars, timerVars, pathVars>>

\* OS_TaskCreate 825-826 (OS_QueueCreate 1242, OS_BinSemCreate 1610,
\* OS_CountSemCreate 1965, OS_MutSemCreate 2307): name_counter++ reads the
\* counter for the suffix of os_unique_name
Name_Read(t, n) ==
  /\ npc[t] = NoNameCall
  /\ calls < MaxCalls
  /\ calls' = calls + 1
  /\ npc' = [npc EXCEPT ![t] = [at |-> "read", name |-> n, slot |-> -1,
                                counter |-> name_counter]]
  /\ UNCHANGED <<ntab, name_counter, acall>>
  /\ UNCHANGED NameOthers

\* name_counter++ stores the value it read plus one, as a uint8
Name_Store(t) ==
  /\ npc[t].at = "read"
  /\ name_counter' = (npc[t].counter + 1) % CounterModulus
  /\ npc' = [npc EXCEPT ![t].at = "formatted"]
  /\ UNCHANGED <<ntab, calls, acall>>
  /\ UNCHANGED NameOthers

\* OS_TaskCreate 828-884: the length tests and, under the table mutex, the
\* search for a free slot, the comparison of the name with the
\* original_name of the slots in use and free = FALSE
Name_Reserve(t) ==
  /\ npc[t].at = "formatted"
  /\ LET n         == npc[t].name
         possible  == FirstFree(ntab)
         reject(c) == /\ acall' = [op |-> "create", code |-> c]
                      /\ npc' = [npc EXCEPT ![t] = NoNameCall]
                      /\ ntab' = ntab
     IN IF Len(n) >= MAX_API_NAME_INCOMING THEN reject(OS_ERR_NAME_TOO_LONG)
        ELSE IF possible >= OS_MAX_MODULES THEN reject(OS_ERR_NO_FREE_IDS)
        ELSE IF \E i \in DOMAIN ntab : ~ntab[i].free /\ ntab[i].original_name = n
        THEN reject(OS_ERR_NAME_TAKEN)
        ELSE /\ ntab' = [ntab EXCEPT ![possible].free = FALSE]
             /\ npc' = [npc EXCEPT ![t].at = "reserved", ![t].slot = possible]
             /\ acall' = acall
  /\ UNCHANGED <<name_counter, calls>>
  /\ UNCHANGED NameOthers

\* OS_TaskCreate 886-909: xTaskCreate with os_unique_name; on failure the
\* slot is free again, on success original_name and name are stored
Name_Construct(t, created) ==
  /\ npc[t].at = "reserved"
  /\ LET i == npc[t].slot
     IN IF created
        THEN /\ ntab' = [ntab EXCEPT ![i].original_name = npc[t].name,
                                     ![i].name = os_unique_name(npc[t].name, npc[t].counter)]
             /\ acall' = [op |-> "create", code |-> OS_SUCCESS]
        ELSE /\ ntab' = [ntab EXCEPT ![i].free = TRUE]
             /\ acall' = [op |-> "create", code |-> OS_ERROR]
  /\ npc' = [npc EXCEPT ![t] = NoNameCall]
  /\ UNCHANGED <<name_counter, calls>>
  /\ UNCHANGED NameOthers

\* k Creates in a row, by one caller, with a name that is too long: each
\* increments name_counter (line 826) and returns OS_ERR_NAME_TOO_LONG (831)
Name_RejectedRun(k) ==
  /\ \A t \in Procs : npc[t] = NoNameCall
  /\ calls < MaxCalls
  /\ calls' = calls + 1
  /\ name_counter' = (name_counter + k) % CounterModulus
  /\ acall' = [op |-> "create", code |-> OS_ERR_NAME_TOO_LONG]
  /\ UNCHANGED <<ntab, npc>>
  /\ UNCHANGED NameOthers

NameInit ==
  /\ TablesIdle /\ LocksIdle /\ HandlesIdle /\ SelectIdle /\ ReadsIdle
  /\ TicksIdle /\ StubsIdle /\ BinSemIdle /\ TimersIdle /\ PathsIdle
  /\ name_counter = 0
  /\ acall = NoArgCall
  /\ ntab = [i \in 0 .. (OS_MAX_MODULES - 1) |-> FreeName]
  /\ npc = [t \in Procs |-> NoNameCall]

NameNext ==
  \/ \E t \in Procs, n \in ObjNames : Name_Read(t, n)
  \/ \E t \in Procs : Name_Store(t)
  \/ \E t \in Procs : Name_Reserve(t)
  \/ \E t \in Procs, created \in BOOLEAN : Name_Construct(t, created)
  \/ \E k \in RejectedRuns : Name_RejectedRun(k)

SpecNames == NameInit /\ [][NameNext]_vars

\* C36: the display name of a newly created object (the truncated original
\* name and the suffix) differs from the display name of every other live
\* object, for any number of creations and for concurrent Creates, also when
\* the truncated names are the same: no two populated slots in use have the
\* same name.
C36_DisplayNamesDiffer ==
  \A i \in DOMAIN ntab, j \in DOMAIN ntab :
    (i # j /\ Populated(i) /\ Populated(j)) => ntab[i].name # ntab[j].name

(***************************************************************************)
(*                      The module table                                   *)
(*                                                                         *)
(* OS_ModuleLoad and OS_ModuleUnload on OS_module_table (ntab), with the   *)
(* name_counter of osloader.c.  A load is the locked reservation, then the *)
(* translation of the path and the static load, which may fail, and the    *)
(* unlocked filling of the slot.                                           *)
(***************************************************************************)

\* a slot that holds a loaded module
Loaded(i) == Populated(i)

\* OS_ModuleLoad 288-324, under OS_module_table_sem: the search for a free
\* slot, the comparison of module_name with the name field of every slot in
\* use, and free = FALSE
OS_ModuleLoad_Reserve(t, module_name) ==
  /\ npc[t] = NoNameCall
  /\ calls < MaxCalls
  /\ calls' = calls + 1
  /\ LET possible_moduleid == FirstFree(ntab)
         reject(c) == /\ acall' = [op |-> "load", code |-> c]
                      /\ UNCHANGED <<ntab, npc>>
     IN IF possible_moduleid >= OS_MAX_MODULES THEN reject(OS_ERR_NO_FREE_IDS)
        ELSE IF \E i \in DOMAIN ntab : ~ntab[i].free /\ ntab[i].name = module_name
        THEN reject(OS_ERR_NAME_TAKEN)
        ELSE /\ ntab' = [ntab EXCEPT ![possible_moduleid].free = FALSE]
             /\ npc' = [npc EXCEPT ![t] = [at |-> "reserved", name |-> module_name,
                                           slot |-> possible_moduleid, counter |-> 0]]
             /\ acall' = acall
  /\ UNCHANGED name_counter
  /\ UNCHANGED NameOthers

\* OS_ModuleLoad 329-347: OS_TranslatePath or SimpleStaticLoadFile fails;
\* free = TRUE and the error is returned
OS_ModuleLoad_Fail(t) ==
  /\ npc[t].at = "reserved"
  /\ ntab' = [ntab EXCEPT ![npc[t].slot].free = TRUE]
  /\ npc' = [npc EXCEPT ![t] = NoNameCall]
  /\ acall' = [op |-> "load", code |-> OS_ERROR]
  /\ UNCHANGED <<name_counter, calls>>
  /\ UNCHANGED NameOthers

\* OS_ModuleLoad 355-364: the module is loaded; original_name is stored and
\* name_counter++ reads the counter
OS_ModuleLoad_Fill(t) ==
  /\ npc[t].at = "reserved"
  /\ ntab' = [ntab EXCEPT ![npc[t].slot].original_name = npc[t].name]
  /\ npc' = [npc EXCEPT ![t].at = "read", ![t].counter = name_counter]
  /\ UNCHANGED <<name_counter, calls, acall>>
  /\ UNCHANGED NameOthers

\* OS_ModuleLoad 364-373: name_counter++ stores the incremented counter,
\* the display name is stored and the call returns OS_SUCCESS
OS_ModuleLoad_Name(t) ==
  /\ npc[t].at = "read"
  /\ name_counter' = (npc[t].counter + 1) % CounterModulus
  /\ ntab' = [ntab EXCEPT ![npc[t].slot].name = os_unique_name(npc[t].name, npc[t].counter)]
  /\ npc' = [npc EXCEPT ![t] = NoNameCall]
  /\ acall' = [op |-> "load", code |-> OS_SUCCESS]
  /\ UNCHANGED calls
  /\ UNCHANGED NameOthers

\* OS_ModuleUnload 387-401
OS_ModuleUnload(module_id) ==
  /\ calls < MaxCalls
  /\ calls' = calls + 1
  /\ IF ~BelowSize(module_id, OS_MAX_MODULES) \/ ntab[module_id].free
     THEN /\ acall' = [op |-> "unload", code |-> OS_ERR_INVALID_ID]
          /\ ntab' = ntab
     ELSE /\ acall' = [op |-> "unload", code |-> OS_SUCCESS]
          /\ ntab' = [ntab EXCEPT ![module_id].free = TRUE]
  /\ UNCHANGED <<name_counter, npc>>
  /\ UNCHANGED NameOthers

\* the names the callers load modules under
ModuleNames == {<<"a">>, <<"a", "b", "c">>, <<"a", " ", "0", "0">>}

ModuleInit == NameInit

ModuleNext ==
  \/ \E t \in Procs, n \in ModuleNames : OS_ModuleLoad_Reserve(t, n)
  \/ \E t \in Procs : OS_ModuleLoad_Fail(t)
  \/ \E t \in Procs : OS_ModuleLoad_Fill(t)
  \/ \E t \in Procs : OS_ModuleLoad_Name(t)
  \/ \E id \in 0 .. OS_MAX_MODULES : OS_ModuleUnload(id)

SpecModules == ModuleInit /\ [][ModuleNext]_vars

\* C39: OS_ModuleLoad with the name of a loaded module returns
\* OS_ERR_NAME_TAKEN and reserves no slot, and no two loaded modules have
\* the same module name: no load reserves a slot under a name that a loaded
\* module has, and the loaded modules' original names all differ.
C39_ModuleNamesUnique ==
  [][/\ \A t \in Procs :
          (npc[t] = NoNameCall /\ npc'[t].at = "reserved")
            => \A i \in DOMAIN ntab :
                 Loaded(i) => ntab[i].original_name # npc'[t].name
     /\ \A i \in DOMAIN ntab, j \in DOMAIN ntab :
          (i # j /\ Loaded(i)' /\ Loaded(j)')
            => ntab'[i].original_name # ntab'[j].original_name]_vars
====
